---- MODULE Spec2Model ----
(***************************************************************************)
(* Model of the content-addressed object store (HashIO), the lazy handle   *)
(* (LazyIO) and the hash-chained log (IOLog) of the tbd crate.             *)
(*                                                                         *)
(* A file is a sequence of cells.  A cell is one byte, or one SHA3-256     *)
(* digest (its 32 bytes taken as one unit).  The digest function is        *)
(* modelled as injective: a digest value records the bytes it was computed *)
(* from, so two digests are equal exactly when their inputs are equal.     *)
(*                                                                         *)
(* One call (HashIO::put, IOLog::push) runs as the sequence of file-system *)
(* and memory steps its code performs, one step per action, so that the    *)
(* states between the steps, an I/O error at a step and a crash between    *)
(* two steps are all states of the model.                                  *)
(***************************************************************************)
EXTENDS Integers, Sequences, FiniteSets, TLC

\* Number of calls (put, push, IOLog::new) one behaviour makes.
MaxCalls == 2
\* Number of I/O errors and crashes one behaviour suffers.
MaxFaults == 1
\* Number of calls (push, reset_head, IOLog::new) one behaviour of the log
\* alone makes.
MaxLogCalls == 4

MaxMemPushes == 4

MaxLazyCalls == 2

MaxLazyOps == 4
\* Calls of put on the store of the conversion.
MaxConvCalls == 3
\* Calls on one TaskStat, and the latest reading of the clock.
MaxTaskOps == 4
MaxTm == 4
\* The bytes of a digest in the checks of the hex strings (32 in hash.rs).
HashBytes == 2

----------------------------------------------------------------------------
(* hash.rs *)

\* enum Hash { None, Sha3([u8; 32]) }.  raw marks 32 bytes that were read
\* from a file without being a digest written there.
HashNone == [alg |-> "None", raw |-> FALSE, of |-> <<>>]

Byte(b) == [k |-> "b", n |-> b, h |-> HashNone]

Digest(hash) == [k |-> "d", n |-> 0, h |-> hash]

hash_bytes(bytes) == [alg |-> "Sha3", raw |-> FALSE, of |-> bytes]

get_bytes(hash) == IF hash.alg = "None" THEN <<>> ELSE <<Digest(hash)>>

hash_with(self, o) == hash_bytes(get_bytes(self) \o get_bytes(o))

\* The hex strings of hash.rs, on hashes with their bytes written out:
\* [alg |-> "None"] or [alg |-> "Sha3", bytes |-> the bytes], and
\* [alg |-> "panic"] for a call that panics.  A String is the sequence of
\* its bytes.
half_byte_to_string(byte) ==
    IF byte < 10 THEN 48 + byte
    ELSE IF byte < 16 THEN 97 + (byte - 10)
    ELSE 63

hex_str_to_u8(byte) ==
    IF byte >= 48 /\ byte <= 57 THEN byte - 48
    ELSE IF byte >= 97 /\ byte <= 102 THEN 10 + (byte - 97)
    ELSE 0

\* byte_to_string for each byte, in order.
bytes_to_string(bytes) ==
    [i \in 1..(2 * Len(bytes)) |->
        IF i % 2 = 1 THEN half_byte_to_string(bytes[(i + 1) \div 2] \div 16)
        ELSE half_byte_to_string(bytes[i \div 2] % 16)]

\* Hash::as_string: get_bytes() of Hash::None is empty.
as_string(hash) ==
    bytes_to_string(IF hash.alg = "None" THEN <<>> ELSE hash.bytes)

\* Hash::from_string: bytes[2 * i] and bytes[2 * i + 1] for each i below the
\* length of a digest, which panics on a shorter string; the result is
\* always Hash::Sha3.
from_string(str) ==
    IF Len(str) < 2 * HashBytes THEN [alg |-> "panic", bytes |-> <<>>]
    ELSE [alg |-> "Sha3",
          bytes |-> [i \in 1..HashBytes |->
                        (hex_str_to_u8(str[2 * i - 1]) * 16 + hex_str_to_u8(str[2 * i])) % 256]]

\* as_string() is "" for Hash::None and 64 hex characters otherwise; the
\* slices [0..2] and [2..] of directory_for_hash / filename_for_hash panic
\* on the empty string.
HasPath(hash) == hash.alg = "Sha3"

----------------------------------------------------------------------------
(* io.rs: the primitive writers.  Each writer is one write call; a value's *)
(* write_to is the sequence of the chunks its write calls emit.            *)

RECURSIVE Flatten(_)
Flatten(chunks) ==
    IF chunks = <<>> THEN <<>> ELSE Head(chunks) \o Flatten(Tail(chunks))

write_u8(i) == <<Byte(i)>>

\* BigEndian::write_u32, for the values below 2^16 the model writes.
write_u32(i) == <<Byte(0), Byte(0), Byte(i \div 256), Byte(i % 256)>>

\* write_u8(tag) followed by write(&*bytes): two write calls.
write_hash(hash) ==
    << write_u8(IF hash.alg = "None" THEN 0 ELSE 1), get_bytes(hash) >>

----------------------------------------------------------------------------
(* The persistable types of the source and their values.                   *)
(*   String                                                                *)
(*   A  = test2::A   { a: u8 } { b: String }                               *)
(*   B  = test2::B   {} { foo: String, bar: A, foobar: A }                 *)
(*   LB = lazyio::test::B {} { b: String }                                 *)
(*   LA = lazyio::test::A {} { a: LazyIO<LB> }                             *)
(*   Vec<String>, BTreeMap<String,String>, IOLogItem<A>                    *)
(*   CA1 = convert_test::A1 {} { x: String }, a tbd_model_1! type          *)
(*   CA  = convert_test::A  {} { x: String, y: String }                    *)
(* A value is a record: ty its type, n its scalar field, s the characters  *)
(* of a String, kids its child fields in declared order (the elements of a *)
(* Vec, key and value alternating in key order for a BTreeMap, the payload *)
(* of a loaded LazyIO), hash the stored hash of a LazyIO or the            *)
(* parent_hash of a log item, io whether a LazyIO holds a store.           *)

Val(ty, n, s, kids, hash, io) ==
    [ty |-> ty, n |-> n, s |-> s, kids |-> kids, hash |-> hash, io |-> io]

NoVal == Val("none", 0, <<>>, <<>>, HashNone, FALSE)

Kind(ty) ==
    CASE ty = "String" -> "string"
      [] ty \in {"A", "B", "LA", "LB", "CA"} -> "model"
      [] ty = "CA1" -> "model1"
      [] ty = "LazyIO<LB>" -> "lazy"
      [] ty = "Vec<String>" -> "vec"
      [] ty = "BTreeMap<String,String>" -> "map"
      [] ty = "IOLogItem<A>" -> "logitem"
      [] OTHER -> "none"

\* The $attr_type list of a tbd_model! type.
attr_types(ty) == IF ty = "A" THEN <<"u8">> ELSE <<>>

\* The $hash_type list of a tbd_model! type; the element types of a
\* container; the payload type of a LazyIO and of a log item.
child_types(ty) ==
    CASE ty = "A" -> <<"String">>
      [] ty = "B" -> <<"String", "A", "A">>
      [] ty = "LB" -> <<"String">>
      [] ty = "CA1" -> <<"String">>
      [] ty = "CA" -> <<"String", "String">>
      [] ty = "LA" -> <<"LazyIO<LB>">>
      [] ty = "LazyIO<LB>" -> <<"LB">>
      [] ty = "Vec<String>" -> <<"String">>
      [] ty = "BTreeMap<String,String>" -> <<"String", "String">>
      [] ty = "IOLogItem<A>" -> <<"A">>
      [] OTHER -> <<>>

\* as_bytes() of the type names the type hashes are built from.
NameBytes(name) ==
    CASE name = "String" -> <<Byte(83), Byte(116), Byte(114), Byte(105), Byte(110), Byte(103)>>
      [] name = "Vec" -> <<Byte(86), Byte(101), Byte(99)>>
      [] name = "BTreeMap" -> <<Byte(66), Byte(84), Byte(114), Byte(101), Byte(101), Byte(77), Byte(97), Byte(112)>>
      [] name = "u8" -> <<Byte(117), Byte(56)>>
      [] OTHER -> <<>>

RECURSIVE type_hash(_)
RECURSIVE TypeHashBytes(_)
\* byte_gen.extend_from_slice(&*type_hash.get_bytes()) for each child type.
TypeHashBytes(tys) ==
    IF tys = <<>> THEN <<>>
    ELSE get_bytes(type_hash(Head(tys))) \o TypeHashBytes(Tail(tys))

type_hash(ty) ==
    CASE Kind(ty) = "string" -> hash_bytes(NameBytes("String"))
      [] Kind(ty) = "model" ->
            hash_bytes(
                Flatten([i \in 1..Len(attr_types(ty)) |->
                            get_bytes(hash_bytes(NameBytes(attr_types(ty)[i])))])
                \o TypeHashBytes(child_types(ty)))
      [] Kind(ty) = "lazy" -> type_hash(child_types(ty)[1])
      [] Kind(ty) = "vec" ->
            hash_bytes(get_bytes(hash_bytes(NameBytes("Vec")))
                       \o TypeHashBytes(child_types(ty)))
      [] Kind(ty) = "map" ->
            hash_bytes(get_bytes(hash_bytes(NameBytes("BTreeMap")))
                       \o TypeHashBytes(child_types(ty)))
      [] OTHER -> HashNone

RECURSIVE as_hash(_)
RECURSIVE write_to(_)
RECURSIVE ChildHashChunks(_)
\* try!(write_hash(&child.as_hash(), write)) for each child in order.
ChildHashChunks(kids) ==
    IF kids = <<>> THEN <<>>
    ELSE write_hash(as_hash(Head(kids))) \o ChildHashChunks(Tail(kids))

\* Writable::write_to, as the chunks of its write calls.
write_to(v) ==
    CASE Kind(v.ty) = "string" ->
            << write_u32(Len(v.s)), [i \in 1..Len(v.s) |-> Byte(v.s[i])] >>
      [] Kind(v.ty) = "model" ->
            <<write_u32(1)>> \o write_hash(type_hash(v.ty))
            \o (IF attr_types(v.ty) = <<>> THEN <<>> ELSE <<write_u8(v.n)>>)
            \o ChildHashChunks(v.kids)
      [] Kind(v.ty) = "model1" ->
            <<write_u32(0)>> \o ChildHashChunks(v.kids)
      [] Kind(v.ty) = "vec" ->
            <<write_u32(0), write_u32(Len(v.kids))>> \o ChildHashChunks(v.kids)
      [] Kind(v.ty) = "map" ->
            <<write_u32(0), write_u32(Len(v.kids) \div 2)>> \o ChildHashChunks(v.kids)
      [] Kind(v.ty) = "logitem" ->
            write_hash(v.hash) \o ChildHashChunks(v.kids)
      [] OTHER -> <<>>

\* Writable::writable_to_hash: the SHA3-256 digest of what write_to emits.
writable_to_hash(v) == hash_bytes(Flatten(write_to(v)))

\* Hashable::as_hash.  A LazyIO answers with its payload's hash when loaded
\* and with its stored hash otherwise.
as_hash(v) ==
    IF Kind(v.ty) = "lazy"
    THEN IF v.kids = <<>> THEN v.hash ELSE as_hash(v.kids[1])
    ELSE writable_to_hash(v)

\* LazyIO::new, LazyIO::unloaded, LazyIO::unload, LazyIO::is_loaded.
LazyIO_new(t) == Val("LazyIO<LB>", 0, <<>>, <<t>>, as_hash(t), FALSE)

LazyIO_unloaded(hash) == Val("LazyIO<LB>", 0, <<>>, <<>>, hash, TRUE)

unload(lazy) == [lazy EXCEPT !.kids = <<>>]

is_loaded(lazy) == lazy.kids # <<>>

----------------------------------------------------------------------------
(* The file system under the store's base path, and the steps of a call.   *)

\* filename_for_hash(hash), the temporary sibling format!("{}_", filename)
\* and format!("{}/head", base_path).
ObjPath(hash) == [kind |-> "obj", h |-> hash]

TmpPath(hash) == [kind |-> "tmp", h |-> hash]

HeadPath == [kind |-> "head", h |-> HashNone]

\* directory_for_hash(hash): the directory named by the first byte of the
\* digest.  The objects of the model have digests with different first
\* bytes, so each has a directory of its own.
directory_for_hash(hash) == hash

\* One step of a call: a file-system call, or an assignment to the log's
\* in-memory head.
Op(op, path, data, v) == [op |-> op, p |-> path, data |-> data, v |-> v]

IsFsOp(o) == o.op # "sethead"

\* The file system after the step o.
Apply(fs, o) ==
    CASE o.op = "mkdir" ->
            [fs EXCEPT !.dirs = @ \cup {directory_for_hash(o.p.h)}]
      [] o.op = "create" ->
            [fs EXCEPT !.files =
                [q \in DOMAIN @ \cup {o.p} |-> IF q = o.p THEN <<>> ELSE @[q]]]
      [] o.op = "write" ->
            [fs EXCEPT !.files = [@ EXCEPT ![o.p] = @ \o o.data]]
      [] o.op = "rename" ->
            [fs EXCEPT !.files =
                [q \in (DOMAIN @ \ {o.p}) \cup {ObjPath(o.p.h)} |->
                    IF q = ObjPath(o.p.h) THEN @[o.p] ELSE @[q]]]
      [] OTHER -> fs

RECURSIVE Run(_, _)
Run(fs, ops) == IF ops = <<>> THEN fs ELSE Run(Apply(fs, Head(ops)), Tail(ops))

\* The write calls of write_to(v) on the file at path.
WriteOps(path, chunks) ==
    [i \in 1..Len(chunks) |-> Op("write", path, chunks[i], NoVal)]

----------------------------------------------------------------------------
(* hashio.rs: HashIO::put and the HashIOImpl writers.  Each operator gives *)
(* the steps the call performs on the file system fs, in order, when no    *)
(* step fails; a failing step ends the call (every step is under try!).    *)

RECURSIVE put(_, _)
RECURSIVE put_all(_, _)
RECURSIVE store_childs(_, _)
RECURSIVE store_hashable(_, _, _)

\* try!(self.put(x)) for each x of vs, one after the other.
put_all(fs, vs) ==
    IF vs = <<>> THEN <<>>
    ELSE LET first == put(fs, Head(vs))
         IN  first \o put_all(Run(fs, first), Tail(vs))

\* A store_childs that puts no child (the default of HashIOImpl for every
\* type): the variant of the code C1 is checked against.
store_childs_none(fs, v) == <<>>

\* HashIOImpl::store_childs: the default writes nothing; a tbd_model! or
\* tbd_model_1! type puts its child fields, a log item its payload, a loaded LazyIO the child
\* fields of its payload.
store_childs(fs, v) ==
    CASE Kind(v.ty) \in {"model", "model1", "logitem"} -> put_all(fs, v.kids)
      [] Kind(v.ty) = "lazy" ->
            IF v.kids = <<>> THEN <<>> ELSE store_childs(fs, v.kids[1])
      [] OTHER -> <<>>

\* HashIOImpl::store_hashable on the open file at path.  Vec and BTreeMap
\* put their elements here, with the file already created; an unloaded
\* LazyIO writes nothing.
store_hashable(fs, v, path) ==
    CASE Kind(v.ty) \in {"vec", "map"} ->
            put_all(fs, v.kids) \o WriteOps(path, write_to(v))
      [] Kind(v.ty) = "lazy" ->
            IF v.kids = <<>> THEN <<>> ELSE store_hashable(fs, v.kids[1], path)
      [] OTHER -> WriteOps(path, write_to(v))

\* Variants of HashIO::put the claims are checked against.
\* create_dir_all moved in front of the test for the final file.
put_mkdir_first(fs, v) ==
    LET hash == as_hash(v)
        filename == ObjPath(hash)
        safe_filename == TmpPath(hash)
        mkdir == << Op("mkdir", filename, <<>>, NoVal) >>
    IN  IF filename \in DOMAIN fs.files THEN mkdir
        ELSE LET childs == store_childs(fs, v)
                 open == << Op("create", safe_filename, <<>>, NoVal) >>
                 fs1 == Run(fs, mkdir \o childs \o open)
             IN  mkdir \o childs \o open \o store_hashable(fs1, v, safe_filename)
                 \o << Op("rename", safe_filename, <<>>, NoVal) >>

\* No test for the final file: every put writes.
put_always(fs, v) ==
    LET hash == as_hash(v)
        filename == ObjPath(hash)
        safe_filename == TmpPath(hash)
        childs == store_childs(fs, v)
        open == << Op("mkdir", filename, <<>>, NoVal),
                   Op("create", safe_filename, <<>>, NoVal) >>
        fs1 == Run(fs, childs \o open)
    IN  childs \o open \o store_hashable(fs1, v, safe_filename)
        \o << Op("rename", safe_filename, <<>>, NoVal) >>

\* No test for the final file and no temporary file: the object is created
\* and written at its final path.
put_in_place(fs, v) ==
    LET hash == as_hash(v)
        filename == ObjPath(hash)
        childs == store_childs(fs, v)
        open == << Op("mkdir", filename, <<>>, NoVal),
                   Op("create", filename, <<>>, NoVal) >>
        fs1 == Run(fs, childs \o open)
    IN  childs \o open \o store_hashable(fs1, v, filename)

\* The rename in front of the writes: the file is written at its final path.
put_rename_first(fs, v) ==
    LET hash == as_hash(v)
        filename == ObjPath(hash)
        safe_filename == TmpPath(hash)
    IN  IF filename \in DOMAIN fs.files THEN <<>>
        ELSE LET childs == store_childs(fs, v)
                 open == << Op("mkdir", filename, <<>>, NoVal),
                            Op("create", safe_filename, <<>>, NoVal),
                            Op("rename", safe_filename, <<>>, NoVal) >>
                 fs1 == Run(fs, childs \o open)
             IN  childs \o open \o store_hashable(fs1, v, filename)

\* HashIO::put.
put(fs, v) ==
    LET hash == as_hash(v)
        filename == ObjPath(hash)
        safe_filename == TmpPath(hash)
    IN  IF filename \in DOMAIN fs.files THEN <<>>
        ELSE LET childs == store_childs(fs, v)
                 open == << Op("mkdir", filename, <<>>, NoVal),
                            Op("create", safe_filename, <<>>, NoVal) >>
                 fs1 == Run(fs, childs \o open)
             IN  childs \o open \o store_hashable(fs1, v, safe_filename)
                 \o << Op("rename", safe_filename, <<>>, NoVal) >>

----------------------------------------------------------------------------
(* io.rs: the primitive readers.  Read::read returns Ok(0) at the end of   *)
(* the file and leaves the buffer as it was, and the readers ignore the    *)
(* count: a short read yields zero bytes, not an error.                    *)

\* The byte at position i of a file; a byte of a digest is neither 0 nor 1.
ByteAt(cells, i) ==
    IF i > Len(cells) THEN 0
    ELSE IF cells[i].k = "b" THEN cells[i].n ELSE 255

\* Read::read(&mut bytes) of a file at position pos into a buffer of n
\* bytes: Ok(count) with the bytes that were left, Ok(0) at the end of the
\* file.  try! hands on an Err only, so this is all a reader can fail with.
Read_read(cells, pos, n) ==
    [ok |-> TRUE,
     count |-> IF pos + n - 1 <= Len(cells) THEN n
               ELSE IF pos > Len(cells) THEN 0 ELSE Len(cells) - pos + 1]

read_u8(cells, pos) == ByteAt(cells, pos)

\* BigEndian::read_u32 of the four bytes at pos; 65536 stands for every
\* value of 2^16 and above.
read_u32(cells, pos) ==
    IF ByteAt(cells, pos) = 0 /\ ByteAt(cells, pos + 1) = 0
    THEN ByteAt(cells, pos + 2) * 256 + ByteAt(cells, pos + 3)
    ELSE 65536

\* read_bytes: n reads of one byte into one reused buffer.
read_bytes(cells, pos, n) ==
    [i \in 1..n |->
        IF pos + i - 1 <= Len(cells) THEN ByteAt(cells, pos + i - 1)
        ELSE IF pos <= Len(cells) THEN ByteAt(cells, Len(cells)) ELSE 0]

\* read_hash: tag 1 is followed by 32 bytes, every other tag is Hash::None.
read_hash(cells, pos) ==
    IF read_u8(cells, pos) = 1
    THEN IF pos + 1 <= Len(cells) /\ cells[pos + 1].k = "d"
         THEN cells[pos + 1].h
         ELSE [alg |-> "Sha3", raw |-> TRUE, of |-> SubSeq(cells, pos + 1, Len(cells))]
    ELSE HashNone

\* The cells read_hash consumes.
HashWidth(cells, pos) == IF read_u8(cells, pos) = 1 THEN 2 ELSE 1

----------------------------------------------------------------------------
(* hashio.rs: HashIO::get and the HashIOImpl readers.                      *)

\* A result: Ok(v), or Err with the name of the HashIOError; arg is what the
\* error holds, the version of a VersionError and the hash of a TypeError.
Ok(v) ==
    [ok |-> TRUE, err |-> "", v |-> v, arg |-> [version |-> 0, type_hash |-> HashNone]]

Err(e) ==
    [ok |-> FALSE, err |-> e, v |-> NoVal, arg |-> [version |-> 0, type_hash |-> HashNone]]

\* flex_no: the flex function of every type the tbd_model! calls above name.
flex_no(hash, fs) == Err("None")

RECURSIVE get(_, _, _)
RECURSIVE receive_hashable(_, _, _, _)
RECURSIVE ReadChilds(_, _, _, _, _)

\* For each type of tys: read_hash at pos, then try!(hash_io.get(&hash_val)).
\* A BTreeMap reads both hashes of a pair before it gets either value, which
\* reaches the same values or fails.
ReadChilds(fs, tys, cells, pos, got) ==
    IF tys = <<>> THEN Ok(Val("", 0, <<>>, got, HashNone, FALSE))
    ELSE LET r == get(fs, Head(tys), read_hash(cells, pos))
         IN  IF r.ok
             THEN ReadChilds(fs, Tail(tys), cells, pos + HashWidth(cells, pos),
                             Append(got, r.v))
             ELSE r

\* An internal_receive that compares the type hash before the version.
internal_receive_type_first(fs, ty, cells) ==
    LET version == read_u32(cells, 1)
        stored == read_hash(cells, 5)
        at == 5 + HashWidth(cells, 5)
        has_attr == attr_types(ty) # <<>>
        childs == ReadChilds(fs, child_types(ty), cells,
                             IF has_attr THEN at + 1 ELSE at, <<>>)
    IN  IF stored # type_hash(ty)
        THEN [Err("TypeError") EXCEPT !.arg.type_hash = stored]
        ELSE IF version < 1
        THEN [Err("VersionError") EXCEPT !.arg.version = version]
        ELSE IF ~childs.ok THEN childs
        ELSE Ok(Val(ty, IF has_attr THEN read_u8(cells, at) ELSE 0, <<>>,
                    childs.v.kids, HashNone, FALSE))

\* tbd_model!::internal_receive.
internal_receive(fs, ty, cells) ==
    LET version == read_u32(cells, 1)
        stored == read_hash(cells, 5)
        at == 5 + HashWidth(cells, 5)
        has_attr == attr_types(ty) # <<>>
        childs == ReadChilds(fs, child_types(ty), cells,
                             IF has_attr THEN at + 1 ELSE at, <<>>)
    IN  IF version < 1
        THEN [Err("VersionError") EXCEPT !.arg.version = version]
        ELSE IF stored # type_hash(ty)
        THEN [Err("TypeError") EXCEPT !.arg.type_hash = stored]
        ELSE IF ~childs.ok THEN childs
        ELSE Ok(Val(ty, IF has_attr THEN read_u8(cells, at) ELSE 0, <<>>,
                    childs.v.kids, HashNone, FALSE))

\* HashIOImpl::receive_hashable.
receive_hashable(fs, ty, cells, hash) ==
    CASE Kind(ty) = "string" ->
            LET len == read_u32(cells, 1)
            IN  Ok(Val(ty, 0, read_bytes(cells, 5, len), <<>>, HashNone, FALSE))
      [] Kind(ty) = "model" ->
            LET res == internal_receive(fs, ty, cells)
            IN  IF res.ok THEN res
                ELSE IF flex_no(hash, fs).ok THEN flex_no(hash, fs) ELSE res
      [] Kind(ty) = "lazy" -> Ok(LazyIO_unloaded(hash))
      [] Kind(ty) = "vec" ->
            LET entries == read_u32(cells, 5)
                childs == ReadChilds(fs, [i \in 1..entries |-> child_types(ty)[1]],
                                     cells, 9, <<>>)
            IN  IF childs.ok THEN Ok(Val(ty, 0, <<>>, childs.v.kids, HashNone, FALSE))
                ELSE childs
      [] Kind(ty) = "map" ->
            LET entries == read_u32(cells, 5)
                childs == ReadChilds(fs,
                              [i \in 1..2 * entries |-> child_types(ty)[2 - (i % 2)]],
                              cells, 9, <<>>)
            IN  IF childs.ok THEN Ok(Val(ty, 0, <<>>, childs.v.kids, HashNone, FALSE))
                ELSE childs
      [] Kind(ty) = "logitem" ->
            LET parent_hash == read_hash(cells, 1)
                childs == ReadChilds(fs, child_types(ty), cells,
                                     1 + HashWidth(cells, 1), <<>>)
            IN  IF childs.ok THEN Ok(Val(ty, 0, <<>>, childs.v.kids, parent_hash, FALSE))
                ELSE childs
      [] OTHER -> Err("Undefined")

\* HashIO::get.  filename_for_hash panics on Hash::None; File::open fails
\* when no file is at the final path.
get(fs, ty, hash) ==
    IF ~HasPath(hash) THEN Err("panic")
    ELSE IF ObjPath(hash) \notin DOMAIN fs.files THEN Err("IOError")
    ELSE receive_hashable(fs, ty, fs.files[ObjPath(hash)], hash)

\* Whether tbd_model!::receive_hashable calls flex_fn: the Err(error) arm of
\* its match on internal_receive.
flex_fn_called(fs, ty, cells) ==
    Kind(ty) = "model" /\ ~internal_receive(fs, ty, cells).ok

\* The file system on which File::open of the paths in bad returns an error.
OpenFails(fs, bad) ==
    [fs EXCEPT !.files = [q \in DOMAIN @ \ bad |-> @[q]]]

----------------------------------------------------------------------------
(* hashio_1.rs: the store of version 0.2, HashIO1, over the same files,    *)
(* and the conversion of convert_test.                                     *)

\* HashIO1::put.
HashIO1_put(fs, v) ==
    LET hash == as_hash(v)
        filename == ObjPath(hash)
        safe_filename == TmpPath(hash)
    IN  IF filename \in DOMAIN fs.files THEN <<>>
        ELSE LET childs == store_childs(fs, v)
                 open == << Op("mkdir", filename, <<>>, NoVal),
                            Op("create", safe_filename, <<>>, NoVal) >>
                 fs1 == Run(fs, childs \o open)
             IN  childs \o open \o store_hashable(fs1, v, safe_filename)
                 \o << Op("rename", safe_filename, <<>>, NoVal) >>

RECURSIVE HashIO1_get(_, _, _)
\* HashIO1::get with HashIOImpl1::receive_hashable: a tbd_model_1! type
\* reads a u32 it does not look at, then the hash of each child.
HashIO1_get(fs, ty, hash) ==
    IF ~HasPath(hash) THEN Err("panic")
    ELSE IF ObjPath(hash) \notin DOMAIN fs.files THEN Err("IOError")
    ELSE LET cells == fs.files[ObjPath(hash)]
         IN  CASE Kind(ty) = "string" ->
                    Ok(Val(ty, 0, read_bytes(cells, 5, read_u32(cells, 1)), <<>>,
                           HashNone, FALSE))
               [] Kind(ty) = "model1" ->
                    LET x == HashIO1_get(fs, child_types(ty)[1], read_hash(cells, 5))
                    IN  IF x.ok THEN Ok(Val(ty, 0, <<>>, <<x.v>>, HashNone, FALSE))
                        ELSE x
               [] OTHER -> Err("Undefined")

\* impl From<A1> for A: x is kept, y is the empty String.
From_A1(a1) ==
    Val("CA", 0, <<>>, <<a1.kids[1], Val("String", 0, <<>>, <<>>, HashNone, FALSE)>>,
        HashNone, FALSE)

\* A load_a that asks the current store only.
load_a_current_only(fs, hash) == get(fs, "CA", hash)

\* convert_test::load_a: the current store is asked first, then the store
\* of version 0.2, whose value is converted; Err("None") is Option::None.
load_a(fs, hash) ==
    LET res == get(fs, "CA", hash)
        res1 == HashIO1_get(fs, "CA1", hash)
    IN  IF res.ok THEN res
        ELSE IF res1.ok THEN Ok(From_A1(res1.v))
        ELSE Err("None")

----------------------------------------------------------------------------
(* lazyio.rs: the accessors of LazyIO<LB>.  Each gives the result of the   *)
(* call and, as v, the handle after it.                                    *)

LazyResult(ok, err, lazy) == [ok |-> ok, err |-> err, v |-> lazy]

\* A load that marks the handle loaded with an empty payload when the store
\* returns an error: the variant of the code C25 is checked against.
load_ignore_error(lazy, fs) ==
    IF is_loaded(lazy) THEN LazyResult(TRUE, "", lazy)
    ELSE IF ~lazy.io THEN LazyResult(FALSE, "NoHashIOError", lazy)
    ELSE LET res == get(fs, child_types(lazy.ty)[1], lazy.hash)
         IN  LazyResult(TRUE, "", [lazy EXCEPT !.kids = <<res.v>>])

\* A load that reads the store again when the handle is loaded: the variant
\* of the code C24 is checked against.
load_again(lazy, fs) ==
    IF ~lazy.io THEN LazyResult(is_loaded(lazy), IF is_loaded(lazy) THEN ""
                                                 ELSE "NoHashIOError", lazy)
    ELSE LET res == get(fs, child_types(lazy.ty)[1], lazy.hash)
         IN  IF res.ok THEN LazyResult(TRUE, "", [lazy EXCEPT !.kids = <<res.v>>])
             ELSE LazyResult(FALSE, res.err, lazy)

\* LazyIO::load.
load(lazy, fs) ==
    IF is_loaded(lazy) THEN LazyResult(TRUE, "", lazy)
    ELSE IF ~lazy.io THEN LazyResult(FALSE, "NoHashIOError", lazy)
    ELSE LET res == get(fs, child_types(lazy.ty)[1], lazy.hash)
         IN  IF res.ok THEN LazyResult(TRUE, "", [lazy EXCEPT !.kids = <<res.v>>])
             ELSE LazyResult(FALSE, res.err, lazy)

\* LazyIO::get_ref and LazyIO::get_mut: load, then the borrow of the payload.
get_ref(lazy, fs) ==
    LET res == load(lazy, fs)
    IN  IF ~res.ok THEN res
        ELSE IF is_loaded(res.v) THEN res
        ELSE LazyResult(FALSE, "UnloadedError", res.v)

\* get_mut, then the assignment of t to the payload it borrows.
get_mut(lazy, fs, t) ==
    LET res == get_ref(lazy, fs)
    IN  IF res.ok THEN LazyResult(TRUE, "", [res.v EXCEPT !.kids = <<t>>]) ELSE res

\* LazyIO::put.
LazyIO_put(lazy, t) == [lazy EXCEPT !.kids = <<t>>]

----------------------------------------------------------------------------
(* iolog.rs: IOLog<A> over the store.                                      *)

\* IOLogItem { parent_hash, item }.
IOLogItem(parent_hash, item) ==
    Val("IOLogItem<A>", 0, <<>>, <<item>>, parent_hash, FALSE)

\* IOLog::head_hash; Hash::None stands for Option::None.
head_hash(log_head) == IF log_head = NoVal THEN HashNone ELSE as_hash(log_head)

\* A write_head that leaves the head file as it is: the variant of the
\* code C12 is checked against.
write_head_skip(log_head) == <<>>

\* IOLog::write_head once the head is set: File::create truncates the head
\* file, write_hash then writes the tag and the digest.
write_head(log_head) ==
    <<Op("create", HeadPath, <<>>, NoVal)>>
    \o WriteOps(HeadPath, write_hash(as_hash(log_head)))

\* A push that links the new item to no parent: the variant of the code C10
\* is checked against.
push_no_parent(log_head, fs, hashable) ==
    LET new_head == IOLogItem(HashNone, hashable)
    IN  put(fs, new_head) \o <<Op("sethead", HeadPath, <<>>, new_head)>>
        \o write_head(new_head)

\* IOLog::push: put the new item, set the in-memory head, write the head
\* file.  A failing step makes push return Hash::None.
push(log_head, fs, hashable) ==
    LET new_head == IOLogItem(head_hash(log_head), hashable)
    IN  put(fs, new_head) \o <<Op("sethead", HeadPath, <<>>, new_head)>>
        \o write_head(new_head)

\* A parent_hash that takes every entry for the genesis entry: the variant
\* of the code C11 is checked against.
parent_hash_none(fs, hash) ==
    LET item == get(fs, "IOLogItem<A>", hash)
    IN  [ok |-> item.ok, hash |-> HashNone]

\* IOLog::parent_hash and IOLog::get.
parent_hash(fs, hash) ==
    LET item == get(fs, "IOLogItem<A>", hash)
    IN  IF item.ok THEN [ok |-> TRUE, hash |-> item.v.hash]
        ELSE [ok |-> FALSE, hash |-> HashNone]

log_get(fs, hash) ==
    LET item == get(fs, "IOLogItem<A>", hash)
    IN  IF item.ok THEN Ok(item.v.kids[1]) ELSE item

\* log.rs: DefaultLog, the log in memory.  entries maps the hash of an
\* entry to its DefaultLogEntry { entry, parent_hash }; Hash::None stands for
\* Option::None.  A log value names its implementation of the Log trait:
\* an IOLog is its head and the store it reads, a DefaultLog its head and
\* its entries.
DefaultLog_new ==
    [impl |-> "DefaultLog", head_hash |-> HashNone, entries |-> << >>,
     fs |-> [files |-> << >>, dirs |-> {}]]

IOLog(log_head, fs) ==
    [impl |-> "IOLog", head_hash |-> head_hash(log_head), entries |-> << >>,
     fs |-> fs]

\* Hashable for Hash.
hash_as_hash(hash) == hash_bytes(get_bytes(hash))

\* A DefaultLog::push whose hash leaves the head out: the variant of the
\* code C19 is checked against.
DefaultLog_push_unlinked(log, t) ==
    LET hash == hash_as_hash(as_hash(t))
    IN  [log EXCEPT !.head_hash = hash,
                    !.entries = [h \in DOMAIN @ \cup {hash} |->
                                    IF h = hash
                                    THEN [entry |-> t, parent_hash |-> log.head_hash]
                                    ELSE @[h]]]

\* DefaultLog::push; the hash it returns is the head_hash of the result.
DefaultLog_push(log, t) ==
    LET entry_hash == as_hash(t)
        hash == IF log.head_hash = HashNone THEN hash_as_hash(entry_hash)
                ELSE hash_with(entry_hash, log.head_hash)
    IN  [log EXCEPT !.head_hash = hash,
                    !.entries = [h \in DOMAIN @ \cup {hash} |->
                                    IF h = hash
                                    THEN [entry |-> t, parent_hash |-> log.head_hash]
                                    ELSE @[h]]]

\* A parent_hash that takes every entry of the map for the genesis entry:
\* the variant of the code C38 is checked against.
DefaultLog_parent_hash_none(log, hash) ==
    [ok |-> hash \in DOMAIN log.entries, hash |-> HashNone]

DefaultLog_parent_hash(log, hash) ==
    IF hash \in DOMAIN log.entries
    THEN [ok |-> TRUE, hash |-> log.entries[hash].parent_hash]
    ELSE [ok |-> FALSE, hash |-> HashNone]

DefaultLog_get(log, hash) ==
    IF hash \in DOMAIN log.entries THEN Ok(log.entries[hash].entry)
    ELSE Err("EntryNotFound")

\* DefaultLog::get_mut(hash), and the assignment of t to the entry it
\* borrows; on EntryNotFound there is nothing to assign to.
DefaultLog_get_mut(log, hash, t) ==
    IF hash \in DOMAIN log.entries
    THEN [log EXCEPT !.entries[hash].entry = t]
    ELSE log

\* The DefaultLog that the pushes of ts, in order, build.
RECURSIVE PushAll(_, _)
PushAll(log, ts) ==
    IF ts = <<>> THEN log ELSE PushAll(DefaultLog_push(log, Head(ts)), Tail(ts))

\* The hashes these pushes return.
DefaultHashes(ts) ==
    [i \in 1..Len(ts) |-> PushAll(DefaultLog_new, SubSeq(ts, 1, i)).head_hash]

\* A parent_hash that names every entry as its own parent: the variant of
\* the code C34 is checked against.
Log_parent_hash_self(log, hash) == [ok |-> TRUE, hash |-> hash]

\* The methods of the Log trait, by implementation.
Log_parent_hash(log, hash) ==
    IF log.impl = "IOLog" THEN parent_hash(log.fs, hash)
    ELSE DefaultLog_parent_hash(log, hash)

Log_get(log, hash) ==
    IF log.impl = "IOLog" THEN log_get(log.fs, hash)
    ELSE DefaultLog_get(log, hash)

\* log.rs: LogIteratorHash and LogIteratorRef over a log, collected into a
\* sequence.  next() yields the current hash (the item got at it) and moves
\* to parent_hash(hash).unwrap_or(None); the item iterator ends at the first
\* item it cannot get.  A chain holds each stored entry at most once, which
\* bounds the calls of next() by fuel.
RECURSIVE LogIteratorHash(_, _, _)
LogIteratorHash(log, hash, fuel) ==
    IF hash = HashNone \/ fuel = 0 THEN <<>>
    ELSE <<hash>> \o LogIteratorHash(log, Log_parent_hash(log, hash).hash, fuel - 1)

RECURSIVE LogIteratorRef(_, _, _)
LogIteratorRef(log, hash, fuel) ==
    IF hash = HashNone \/ fuel = 0 THEN <<>>
    ELSE LET value == Log_get(log, hash)
         IN  IF ~value.ok THEN <<>>
             ELSE <<value.v>>
                  \o LogIteratorRef(log, Log_parent_hash(log, hash).hash, fuel - 1)

\* The entries a log can hold, plus one.
Fuel(log) == Cardinality(DOMAIN log.fs.files) + Cardinality(DOMAIN log.entries) + 1

\* LogIteratorHash::from_log(&log).collect() and LogIteratorRef::from_log.
hash_iter(log) == LogIteratorHash(log, log.head_hash, Fuel(log))

iter(log) == LogIteratorRef(log, log.head_hash, Fuel(log))

\* log.rs: Option<LogVerifyFailure>; failure is "None" for Option::None.
NoFailure ==
    [failure |-> "None", t |-> NoVal, actual_hash |-> HashNone,
     expected_hash |-> HashNone]

LogError(hash) ==
    [failure |-> "LogError", t |-> NoVal, actual_hash |-> hash,
     expected_hash |-> HashNone]

\* A gen_verify_failure that takes its hashes in the other order: the
\* variant of the code C22 is checked against.
gen_verify_failure_swapped(t, act, exp) ==
    [failure |-> "LogHashFailure", t |-> t, actual_hash |-> exp,
     expected_hash |-> act]

gen_verify_failure(t, act, exp) ==
    [failure |-> "LogHashFailure", t |-> t, actual_hash |-> act,
     expected_hash |-> exp]

\* A loop over hashes.iter() without rev(), head first, that returns the
\* failure found last: the variant of the code C21 is checked against.
RECURSIVE verify_head_first(_, _, _)
verify_head_first(log, hashes, i) ==
    IF i = 0 THEN NoFailure
    ELSE LET hash == hashes[i]
             parent_hash_result == Log_parent_hash(log, hash)
             entry == Log_get(log, hash)
             entry_hash == as_hash(entry.v)
             expected_hash ==
                 IF parent_hash_result.hash = HashNone THEN hash_as_hash(entry_hash)
                 ELSE hash_with(entry_hash, parent_hash_result.hash)
             rest == verify_head_first(log, hashes, i - 1)
         IN  IF rest # NoFailure THEN rest
             ELSE IF ~entry.ok \/ ~parent_hash_result.ok THEN LogError(hash)
             ELSE IF hash # expected_hash
                  THEN [failure |-> "LogHashFailure", t |-> entry.v,
                        actual_hash |-> hash, expected_hash |-> expected_hash]
                  ELSE NoFailure

\* The loop of verify_log over hashes.iter().rev(), from position i down.
RECURSIVE verify_from(_, _, _)
verify_from(log, hashes, i) ==
    IF i = 0 THEN NoFailure
    ELSE LET hash == hashes[i]
             parent_hash_result == Log_parent_hash(log, hash)
             entry == Log_get(log, hash)
             entry_hash == as_hash(entry.v)
             expected_hash ==
                 IF parent_hash_result.hash = HashNone THEN hash_as_hash(entry_hash)
                 ELSE hash_with(entry_hash, parent_hash_result.hash)
         IN  IF ~entry.ok \/ ~parent_hash_result.ok THEN LogError(hash)
             ELSE IF hash # expected_hash
                  THEN gen_verify_failure(entry.v, hash, expected_hash)
                  ELSE verify_from(log, hashes, i - 1)

\* verify_log.
verify_log(log) == verify_from(log, hash_iter(log), Len(hash_iter(log)))

\* An IOLog::new that starts with an entry of its own when the entry the
\* head file names cannot be fetched: the variant of the code C16 is checked
\* against.
IOLog_new_default(fs) ==
    LET hash == IF HeadPath \in DOMAIN fs.files
                THEN read_hash(fs.files[HeadPath], 1) ELSE HashNone
        item == get(fs, "IOLogItem<A>", hash)
    IN  IF hash = HashNone THEN NoVal
        ELSE IF item.ok THEN item.v
        ELSE IOLogItem(hash, Val("A", 0, <<>>, <<Val("String", 0, <<>>, <<>>, HashNone, FALSE)>>,
                                 HashNone, FALSE))

\* IOLog::new: the head the log starts with.
IOLog_new(fs) ==
    LET hash == IF HeadPath \in DOMAIN fs.files
                THEN read_hash(fs.files[HeadPath], 1) ELSE HashNone
        item == get(fs, "IOLogItem<A>", hash)
    IN  IF hash = HashNone \/ ~item.ok THEN NoVal ELSE item.v

----------------------------------------------------------------------------
(* task.rs and lib.rs: TaskStat in its two revisions.  A Tm is a number of *)
(* half days, so that a time has a part floor_tm_day removes.  A task is   *)
(* its title (description and factor take no part in any decision), a      *)
(* BTreeMap a function on its keys.  Each operation gives its return value *)
(* ret and the TaskStat ts after it.                                       *)

TicksPerDay == 2

\* floor_tm_day: hours and everything below are removed.
floor_tm_day(tm) == tm - (tm % TicksPerDay)

\* BTreeMap::insert(k, v).
Insert(map, k, v) == [x \in DOMAIN map \cup {k} |-> IF x = k THEN v ELSE map[x]]

\* TaskStat::empty_task_stat, the same in both revisions; now is time::now().
empty_task_stat(now) == [active |-> << >>, pool |-> << >>, ref_tm |-> now]

\* task.rs: can_activate with is_p_task_active and is_p_task_cooling_down.
can_activate(ts, p_task) ==
    LET is_active == p_task.title \in DOMAIN ts.active
        is_cooldown == ts.ref_tm < p_task.cooling_until
    IN  ~(is_active \/ is_cooldown)

\* task.rs: activate.  rng gives next_f32() (in tenths) for each pooled
\* task; pick_random_from_pool keeps those below the task's propability,
\* can_activate is asked for each before any is inserted, and
\* activate_p_task inserts p_to_a_task of each that passed.
activate(ts, rng) ==
    LET picked == {t \in DOMAIN ts.pool : rng[t] < ts.pool[t].propability}
        insert_tasks == {t \in picked : can_activate(ts, ts.pool[t])}
        p_to_a_task(t) ==
            [title |-> t, start |-> ts.ref_tm,
             due |-> floor_tm_day(ts.ref_tm + ts.pool[t].due_days * TicksPerDay)]
        active == [t \in DOMAIN ts.active \cup insert_tasks |->
                      IF t \in insert_tasks THEN p_to_a_task(t) ELSE ts.active[t]]
    IN  [ret |-> {p_to_a_task(t) : t \in insert_tasks},
         ts |-> [ts EXCEPT !.active = active]]

\* task.rs: add_active_task.
add_active_task(ts, title, due_days) ==
    LET ref_tm == floor_tm_day(ts.ref_tm)
        a_task == [title |-> title, start |-> ref_tm,
                   due |-> ref_tm + due_days * TicksPerDay]
    IN  [ret |-> a_task,
         ts |-> [ts EXCEPT !.ref_tm = ref_tm, !.active = Insert(@, title, a_task)]]

\* task.rs: add_pooled_task.
add_pooled_task(ts, title, propability, cool_down, due_days) ==
    LET ref_tm == floor_tm_day(ts.ref_tm)
        p_task == [title |-> title, propability |-> propability,
                   cool_down |-> cool_down, due_days |-> due_days,
                   cooling_until |-> ref_tm]
    IN  [ret |-> p_task,
         ts |-> [ts EXCEPT !.ref_tm = ref_tm, !.pool = Insert(@, title, p_task)]]

\* A mark_done that does not renew the pooled task.
mark_done_no_renew(ts, title) ==
    IF title \notin DOMAIN ts.active THEN [ret |-> FALSE, ts |-> ts]
    ELSE [ret |-> TRUE,
          ts |-> [ts EXCEPT !.active = [t \in DOMAIN @ \ {title} |-> @[t]]]]

\* task.rs: mark_done with renew_p_task.
mark_done(ts, title) ==
    IF title \notin DOMAIN ts.active THEN [ret |-> FALSE, ts |-> ts]
    ELSE LET active == [t \in DOMAIN ts.active \ {title} |-> ts.active[t]]
             pool == IF title \in DOMAIN ts.pool
                     THEN [ts.pool EXCEPT ![title].cooling_until =
                              ts.ref_tm + ts.pool[title].cool_down * TicksPerDay]
                     ELSE ts.pool
         IN  [ret |-> TRUE, ts |-> [ts EXCEPT !.active = active, !.pool = pool]]

\* lib.rs: can_activate; is_p_task_active looks the title up in the pool,
\* is_p_task_cooling_down is now > task_limit.
lib_can_activate(ts, p_task) ==
    LET is_active == p_task.title \in DOMAIN ts.pool
        is_cooldown == ts.ref_tm > p_task.cooling_until
    IN  ~is_active /\ ~is_cooldown

\* lib.rs: activate; the task it inserts has no start and its due is not
\* floored.
lib_activate(ts, rng) ==
    LET picked == {t \in DOMAIN ts.pool : rng[t] < ts.pool[t].propability}
        insert_tasks == {t \in picked : lib_can_activate(ts, ts.pool[t])}
        p_to_a_task(t) ==
            [title |-> t, start |-> 0,
             due |-> ts.ref_tm + ts.pool[t].due_days * TicksPerDay]
        active == [t \in DOMAIN ts.active \cup insert_tasks |->
                      IF t \in insert_tasks THEN p_to_a_task(t) ELSE ts.active[t]]
    IN  [ret |-> {}, ts |-> [ts EXCEPT !.active = active]]

\* lib.rs: add_active_task; ref_tm is left as it is.
lib_add_active_task(ts, title, due_days) ==
    LET a_task == [title |-> title, start |-> 0,
                   due |-> ts.ref_tm + due_days * TicksPerDay]
    IN  [ret |-> a_task, ts |-> [ts EXCEPT !.active = Insert(@, title, a_task)]]

\* lib.rs: add_pooled_task; cooling_until is time::now().
lib_add_pooled_task(ts, title, propability, cool_down, due_days, now) ==
    LET p_task == [title |-> title, propability |-> propability,
                   cool_down |-> cool_down, due_days |-> due_days,
                   cooling_until |-> now]
    IN  [ret |-> p_task, ts |-> [ts EXCEPT !.pool = Insert(@, title, p_task)]]

\* lib.rs: mark_done.
lib_mark_done(ts, title) == [ret |-> FALSE, ts |-> ts]

----------------------------------------------------------------------------
(* The values the calls of a behaviour are made with.                      *)

Str(s) == Val("String", 0, s, <<>>, HashNone, FALSE)

Model(ty, n, kids) == Val(ty, n, <<>>, kids, HashNone, FALSE)

sx == Str(<<120>>)

sy == Str(<<121>>)

\* Two different parents with an equal child.
A1 == Model("A", 1, <<sx>>)

A2 == Model("A", 2, <<sx>>)

B1 == Model("B", 0, <<sy, A1, A2>>)

V1 == Val("Vec<String>", 0, <<>>, <<sx, sy>>, HashNone, FALSE)

M1 == Val("BTreeMap<String,String>", 0, <<>>, <<sx, sy>>, HashNone, FALSE)

LB1 == Model("LB", 0, <<sx>>)

\* A parent whose lazy field is loaded (LazyIO::new), and one whose lazy
\* field was unloaded again (LazyIO::new, then unload).
LAloaded == Model("LA", 0, <<LazyIO_new(LB1)>>)

LAunloaded == Model("LA", 0, <<unload(LazyIO_new(LB1))>>)

\* A second payload for the lazy field.
LB2 == Model("LB", 0, <<sy>>)

LazyPayloads == {LB1, LB2}

\* The values convert_test saves with HashIO1, and the hashes load_a is
\* called with: theirs and those of their conversions.
LegacyValues == {Model("CA1", 0, <<sx>>), Model("CA1", 0, <<sy>>)}

\* The titles of the tasks.
Titles == {"task a", "task b"}

ConvertHashes ==
    {as_hash(a1) : a1 \in LegacyValues} \cup {as_hash(From_A1(a1)) : a1 \in LegacyValues}

PutValues == {sx, A1, A2, B1, V1, M1, LB1, LAloaded, LAunloaded}

PushValues == {A1, A2}

\* The log items a log of at most n entries can hold.
RECURSIVE Items(_)
Items(n) ==
    IF n = 0 THEN {}
    ELSE LET prev == Items(n - 1)
         IN  prev \cup {IOLogItem(HashNone, a) : a \in PushValues}
                  \cup {IOLogItem(as_hash(i), a) : i \in prev, a \in PushValues}

\* The hashes reset_head is called with.
ResetHashes == {as_hash(i) : i \in Items(MaxCalls)}

----------------------------------------------------------------------------
(* State.                                                                  *)

VARIABLES
    files,   \* the files under the base path: path -> content
    dirs,    \* the directories under the base path
    head,    \* IOLog.head, NoVal for Option::None
    call,    \* the call in progress: its kind, its argument, the head hash
             \* it started from, the steps it has performed
    todo,    \* the steps the call in progress has still to perform
    ret,     \* what the last call returned
    calls,   \* calls made
    faults,  \* I/O errors and crashes suffered
    hist,    \* the pushes that returned a hash, in order, whether the log
             \* was changed by such pushes alone, and the files as they were
             \* when the push in progress was called
    mem,     \* a DefaultLog in memory and the pushes that built it
    lazy,    \* a parent with a LazyIO field in memory, the result of the
             \* last call on the field, the field as it was before that
             \* call, and the number of calls made
    stat,    \* a TaskStat of revision rev in memory, the last call on it
             \* with its argument and return value, the number of calls
             \* made and the latest reading of the clock
    hex      \* the last call of Hash::as_string or Hash::from_string: the
             \* hash and the string it took and gave

vars == <<files, dirs, head, call, todo, ret, calls, faults, hist, mem, lazy, stat, hex>>

\* The store, the IOLog over it and the call in progress.
storevars == <<files, dirs, head, call, todo, ret, calls, faults, hist>>

\* The values in memory.
memvars == <<mem, lazy, stat, hex>>

FS == [files |-> files, dirs |-> dirs]

Idle == [kind |-> "idle", v |-> NoVal, parent_hash |-> HashNone, step |-> 0]

Returned(c, ok, hash) ==
    [kind |-> c.kind, v |-> c.v, ok |-> ok, hash |-> hash,
     parent_hash |-> c.parent_hash, steps |-> c.step]

Init ==
    /\ files = << >>
    /\ dirs = {}
    /\ head = NoVal
    /\ call = Idle
    /\ todo = << >>
    /\ ret = Returned(Idle, TRUE, HashNone)
    /\ calls = 0
    /\ faults = 0
    /\ hist = [pure |-> TRUE, pushed |-> << >>, start |-> << >>]
    /\ mem = [log |-> DefaultLog_new, pushed |-> << >>]
    /\ lazy = [obj |-> NoVal, op |-> "", res |-> LazyResult(TRUE, "", NoVal),
               was |-> NoVal, n |-> 0]
    /\ stat = [rev |-> "none", ts |-> empty_task_stat(0), op |-> "", arg |-> "",
               ret |-> FALSE, n |-> 0, now |-> 0]
    /\ hex = [op |-> "", hash |-> [alg |-> "None", bytes |-> <<>>], str |-> <<>>]

\* hash_io.put(&v) is called, as one of at most limit calls.
PutWithin(v, limit) ==
    /\ call.kind = "idle"
    /\ calls < limit
    /\ call' = [kind |-> "put", v |-> v, parent_hash |-> HashNone, step |-> 0]
    /\ todo' = put(FS, v)
    /\ calls' = calls + 1
    /\ UNCHANGED <<files, dirs, head, ret, faults, hist>>
    /\ UNCHANGED memvars

Put(v) == PutWithin(v, MaxCalls)

\* log.push(v) is called, as one of at most limit calls.
PushWithin(v, limit) ==
    /\ call.kind = "idle"
    /\ calls < limit
    /\ call' = [kind |-> "push", v |-> v, parent_hash |-> head_hash(head), step |-> 0]
    /\ todo' = push(head, FS, v)
    /\ calls' = calls + 1
    /\ hist' = [hist EXCEPT !.start = files]
    /\ UNCHANGED <<files, dirs, head, ret, faults>>
    /\ UNCHANGED memvars

Push(v) == PushWithin(v, MaxCalls)

\* The call in progress performs its next step.
Step ==
    /\ call.kind # "idle"
    /\ todo # << >>
    /\ LET o == Head(todo)
           fs == Apply(FS, o)
       IN  /\ files' = fs.files
           /\ dirs' = fs.dirs
           /\ head' = IF o.op = "sethead" THEN o.v ELSE head
    /\ todo' = Tail(todo)
    /\ call' = [call EXCEPT !.step = @ + 1]
    /\ UNCHANGED <<ret, calls, faults, hist>>
    /\ UNCHANGED memvars

\* The next file-system call fails: try! returns the error from put, and
\* push turns it into Hash::None.
Fail ==
    /\ call.kind # "idle"
    /\ todo # << >>
    /\ IsFsOp(Head(todo))
    /\ faults < MaxFaults
    /\ ret' = Returned(call, FALSE, HashNone)
    /\ call' = Idle
    /\ todo' = << >>
    /\ faults' = faults + 1
    /\ hist' = IF call.kind = "push"
               THEN [hist EXCEPT !.pure = FALSE, !.start = << >>]
               ELSE hist
    /\ UNCHANGED <<files, dirs, head, calls>>
    /\ UNCHANGED memvars

\* The call returns: Ok(()) from put, the new head's hash from push.
Return ==
    /\ call.kind # "idle"
    /\ todo = << >>
    /\ ret' = Returned(call, TRUE,
                       IF call.kind = "push" THEN as_hash(head) ELSE HashNone)
    /\ call' = Idle
    /\ hist' = IF call.kind = "push"
               THEN [hist EXCEPT !.pushed =
                        Append(@, [hash |-> as_hash(head), v |-> call.v]),
                                 !.start = << >>]
               ELSE hist
    /\ UNCHANGED <<files, dirs, head, todo, calls, faults>>
    /\ UNCHANGED memvars

\* The process dies between two steps of a call and is started again: the
\* files stay, the log is constructed anew by IOLog::new.
Crash ==
    /\ call.kind # "idle"
    /\ todo # << >>
    /\ faults < MaxFaults
    /\ ret' = [Returned(call, FALSE, HashNone) EXCEPT !.kind = "crash"]
    /\ call' = Idle
    /\ todo' = << >>
    /\ head' = IOLog_new(FS)
    /\ faults' = faults + 1
    /\ hist' = IF call.kind = "push"
               THEN [hist EXCEPT !.pure = FALSE, !.start = << >>]
               ELSE hist
    /\ UNCHANGED <<files, dirs, calls>>
    /\ UNCHANGED memvars

\* IOLog::new(base) is called on the store, as one of at most limit calls.
ReopenWithin(limit) ==
    /\ call.kind = "idle"
    /\ calls < limit
    /\ head' = IOLog_new(FS)
    /\ ret' = [Returned(Idle, TRUE, head_hash(IOLog_new(FS))) EXCEPT !.kind = "new"]
    /\ calls' = calls + 1
    /\ UNCHANGED <<files, dirs, call, todo, faults, hist>>
    /\ UNCHANGED memvars

Reopen == ReopenWithin(MaxCalls)

\* reset_head(&hash) is called (the legacy log IOLog1 is the one that offers
\* it): the item is read from the store and becomes the in-memory head; no
\* file is written.
ResetHeadWithin(hash, limit) ==
    /\ call.kind = "idle"
    /\ calls < limit
    /\ LET item == get(FS, "IOLogItem<A>", hash)
       IN  /\ head' = IF item.ok THEN item.v ELSE head
           /\ ret' = [Returned(Idle, item.ok, hash) EXCEPT !.kind = "reset_head"]
           /\ hist' = IF item.ok THEN [hist EXCEPT !.pure = FALSE] ELSE hist
    /\ calls' = calls + 1
    /\ UNCHANGED <<files, dirs, call, todo, faults>>
    /\ UNCHANGED memvars

ResetHead(hash) == ResetHeadWithin(hash, MaxCalls)

Next ==
    \/ \E v \in PutValues : Put(v)
    \/ \E v \in PushValues : Push(v)
    \/ \E hash \in ResetHashes : ResetHead(hash)
    \/ Step
    \/ Fail
    \/ Return
    \/ Crash
    \/ Reopen

Spec == Init /\ [][Next]_vars

\* The log alone, without I/O errors and crashes: push, reset_head and
\* IOLog::new, each call running to its end.
NextLog ==
    \/ \E v \in PushValues : PushWithin(v, MaxLogCalls)
    \/ \E hash \in ResetHashes : ResetHeadWithin(hash, MaxLogCalls)
    \/ ReopenWithin(MaxLogCalls)
    \/ Step
    \/ Return

SpecLog == Init /\ [][NextLog]_vars

\* The log under I/O errors: push and IOLog::new, a failing file-system call
\* making push return Hash::None.
NextHistory ==
    \/ \E v \in PushValues : Push(v)
    \/ Step
    \/ Fail
    \/ Return
    \/ Reopen

SpecHistory == Init /\ [][NextHistory]_vars

\* The hashes get_mut is called with: the hashes pushes can return.
MemHashes ==
    {DefaultHashes(ts)[Len(ts)] :
        ts \in UNION {[1..n -> PushValues] : n \in 1..MaxMemPushes}}

\* log.push(t) on the DefaultLog.
MemPush(t) ==
    /\ Len(mem.pushed) < MaxMemPushes
    /\ LET log == DefaultLog_push(mem.log, t)
       IN  mem' = [log |-> log,
                   pushed |-> Append(mem.pushed, [hash |-> log.head_hash, v |-> t])]
    /\ UNCHANGED <<storevars, lazy, stat, hex>>

\* match log.get_mut(hash) { Ok(entry) => *entry = t, Err(_) => () }.
MemGetMut(hash, t) ==
    /\ mem' = [mem EXCEPT !.log = DefaultLog_get_mut(@, hash, t)]
    /\ UNCHANGED <<storevars, lazy, stat, hex>>

\* The DefaultLog alone: pushes, and changes of entries through get_mut.
NextMem ==
    \/ \E t \in PushValues : MemPush(t)
    \/ \E hash \in MemHashes, t \in PushValues : MemGetMut(hash, t)

SpecMem == Init /\ [][NextMem]_vars

\* let a = LA { a: LazyIO::new(b) }.
LazyNew(b) ==
    /\ call.kind = "idle"
    /\ lazy.n < MaxLazyOps
    /\ lazy' = [obj |-> Model("LA", 0, <<LazyIO_new(b)>>), op |-> "new",
                res |-> LazyResult(TRUE, "", LazyIO_new(b)), was |-> NoVal,
                n |-> lazy.n + 1]
    /\ UNCHANGED <<storevars, mem, stat, hex>>

\* let a = LA { a: LazyIO::unloaded(hash, hash_io.clone()) }.
LazyUnloaded(hash) ==
    /\ call.kind = "idle"
    /\ lazy.n < MaxLazyOps
    /\ lazy' = [obj |-> Model("LA", 0, <<LazyIO_unloaded(hash)>>), op |-> "unloaded",
                res |-> LazyResult(TRUE, "", LazyIO_unloaded(hash)), was |-> NoVal,
                n |-> lazy.n + 1]
    /\ UNCHANGED <<storevars, mem, stat, hex>>

\* let a: LA = hash_io.get(&hash).unwrap().
LazyGet(hash) ==
    /\ call.kind = "idle"
    /\ lazy.n < MaxLazyOps
    /\ get(FS, "LA", hash).ok
    /\ lazy' = [obj |-> get(FS, "LA", hash).v, op |-> "get",
                res |-> LazyResult(TRUE, "", get(FS, "LA", hash).v.kids[1]),
                was |-> NoVal, n |-> lazy.n + 1]
    /\ UNCHANGED <<storevars, mem, stat, hex>>

\* A call on the lazy field of the parent in memory: the result is res, the
\* field after the call res.v.
LazyCall(op, res) ==
    /\ call.kind = "idle"
    /\ lazy.obj # NoVal
    /\ lazy.n < MaxLazyOps
    /\ lazy' = [obj |-> [lazy.obj EXCEPT !.kids = <<res.v>>], op |-> op,
                res |-> res, was |-> lazy.obj.kids[1], n |-> lazy.n + 1]
    /\ UNCHANGED <<storevars, mem, stat, hex>>

\* a.a.load(), a.a.get_ref(), a.a.get_mut() with an assignment, a.a.unload().
LazyLoad == LazyCall("load", load(lazy.obj.kids[1], FS))

LazyGetRef == LazyCall("get_ref", get_ref(lazy.obj.kids[1], FS))

LazyGetMut(t) == LazyCall("get_mut", get_mut(lazy.obj.kids[1], FS, t))

LazyUnload == LazyCall("unload", LazyResult(TRUE, "", unload(lazy.obj.kids[1])))

\* a.a.put(t).
LazyPut(t) == LazyCall("put", LazyResult(TRUE, "", LazyIO_put(lazy.obj.kids[1], t)))

\* hash_io.put(&a) of the parent in memory.
LazyPutObj ==
    /\ lazy.obj # NoVal
    /\ PutWithin(lazy.obj, MaxLazyCalls)

\* The store and a parent with a lazy field in memory, without I/O errors.
NextLazy ==
    \/ \E b \in LazyPayloads : LazyNew(b)
    \/ \E b \in LazyPayloads : LazyUnloaded(as_hash(b))
    \/ \E b \in LazyPayloads : LazyGet(as_hash(Model("LA", 0, <<LazyIO_new(b)>>)))
    \/ LazyLoad
    \/ LazyGetRef
    \/ \E t \in LazyPayloads : LazyGetMut(t)
    \/ LazyUnload
    \/ \E t \in LazyPayloads : LazyPut(t)
    \/ LazyPutObj
    \/ Step
    \/ Return

SpecLazy == Init /\ [][NextLazy]_vars

\* convert_test::save_hashio1: HashIO1::put of a value of the old type.
SaveHashIO1(a1) ==
    /\ call.kind = "idle"
    /\ calls < MaxConvCalls
    /\ call' = [kind |-> "put", v |-> a1, parent_hash |-> HashNone, step |-> 0]
    /\ todo' = HashIO1_put(FS, a1)
    /\ calls' = calls + 1
    /\ UNCHANGED <<files, dirs, head, ret, faults, hist>>
    /\ UNCHANGED memvars

\* let a = load_a(&hash).unwrap(); save_a(&a).
SaveA(hash) ==
    /\ load_a(FS, hash).ok
    /\ PutWithin(load_a(FS, hash).v, MaxConvCalls)

\* The store written by both versions, without I/O errors.
NextConvert ==
    \/ \E a1 \in LegacyValues : SaveHashIO1(a1)
    \/ \E hash \in ConvertHashes : SaveA(hash)
    \/ Step
    \/ Return

SpecConvert == Init /\ [][NextConvert]_vars

\* let mut task_stat = TaskStat::empty_task_stat(), in revision rev.
TaskNew(rev, now) ==
    /\ stat.rev = "none"
    /\ stat' = [rev |-> rev, ts |-> empty_task_stat(now), op |-> "empty_task_stat",
                arg |-> "", ret |-> FALSE, n |-> 0, now |-> now]
    /\ UNCHANGED <<storevars, mem, lazy, hex>>

\* A call on the TaskStat when the clock reads now: res is what it returns
\* and the TaskStat after it.
TaskCall(op, arg, res, now) ==
    /\ stat.rev # "none"
    /\ stat.n < MaxTaskOps
    /\ now >= stat.now
    /\ stat' = [rev |-> stat.rev, ts |-> res.ts, op |-> op, arg |-> arg,
                ret |-> res.ret, n |-> stat.n + 1, now |-> now]
    /\ UNCHANGED <<storevars, mem, lazy, hex>>

\* The owner of a task.rs TaskStat sets its public field ref_tm to the
\* reading of the clock.
TaskSetRefTm(now) ==
    /\ stat.rev = "task"
    /\ now > stat.ts.ref_tm
    /\ TaskCall("ref_tm", "", [ret |-> FALSE, ts |-> [stat.ts EXCEPT !.ref_tm = now]], now)

\* One TaskStat of either revision and the calls of its trait; next_f32
\* returns 0.0 or 0.7, every propability is 0.5 (both in tenths).
NextTask ==
    \/ \E rev \in {"task", "lib"}, now \in 0..MaxTm : TaskNew(rev, now)
    \/ \E title \in Titles, now \in 0..MaxTm :
          TaskCall("add_active_task", title,
                   IF stat.rev = "lib" THEN lib_add_active_task(stat.ts, title, 1)
                   ELSE add_active_task(stat.ts, title, 1), now)
    \/ \E title \in Titles, cool_down \in {0, 1}, now \in 0..MaxTm :
          TaskCall("add_pooled_task", title,
                   IF stat.rev = "lib"
                   THEN lib_add_pooled_task(stat.ts, title, 5, cool_down, 1, now)
                   ELSE add_pooled_task(stat.ts, title, 5, cool_down, 1), now)
    \/ \E rng \in [DOMAIN stat.ts.pool -> {0, 7}], now \in 0..MaxTm :
          TaskCall("activate", {t \in DOMAIN rng : rng[t] < stat.ts.pool[t].propability},
                   IF stat.rev = "lib" THEN lib_activate(stat.ts, rng)
                   ELSE activate(stat.ts, rng), now)
    \/ \E title \in Titles, now \in 0..MaxTm :
          TaskCall("mark_done", title,
                   IF stat.rev = "lib" THEN lib_mark_done(stat.ts, title)
                   ELSE mark_done(stat.ts, title), now)
    \/ \E now \in 0..MaxTm : TaskSetRefTm(now)

SpecTask == Init /\ [][NextTask]_vars

\* The characters 0-9 and a-f.
HexChars == (48..57) \cup (97..102)

\* Hash::from_string(str).
HexFromString(str) ==
    /\ hex.op = ""
    /\ hex' = [op |-> "from_string", hash |-> from_string(str), str |-> str]
    /\ UNCHANGED <<storevars, mem, lazy, stat>>

\* hash.as_string().
HexAsString(hash) ==
    /\ hex.op = ""
    /\ hex' = [op |-> "as_string", hash |-> hash, str |-> as_string(hash)]
    /\ UNCHANGED <<storevars, mem, lazy, stat>>

\* One conversion: of any hex string of the length of a digest, or of any
\* hash.
NextHex ==
    \/ /\ hex.op = ""
       /\ \E str \in [1..(2 * HashBytes) -> HexChars] : HexFromString(str)
    \/ /\ hex.op = ""
       /\ \E bytes \in [1..HashBytes -> 0..255] :
             HexAsString([alg |-> "Sha3", bytes |-> bytes])
    \/ HexAsString([alg |-> "None", bytes |-> <<>>])

SpecHex == Init /\ [][NextHex]_vars

----------------------------------------------------------------------------
(* What the properties below speak of.                                     *)

\* The final object paths that hold a file.
ObjFiles == {p \in DOMAIN files : p.kind = "obj"}

\* The temporary paths that hold a file.
TmpFiles == {p \in DOMAIN files : p.kind = "tmp"}

\* The type hashes a file of the model can hold.
TypeHashes == {type_hash(ty) : ty \in {"String", "A", "B", "LA", "LB"}}

\* The child hashes a file references: the digests among its cells, the
\* type hash aside.
ChildRefs(cells) ==
    {cells[i].h : i \in {j \in 1..Len(cells) : cells[j].k = "d"}} \ TypeHashes

\* A value and the values it is built from.
RECURSIVE Parts(_)
Parts(v) == {v} \cup UNION {Parts(v.kids[i]) : i \in 1..Len(v.kids)}

\* The values with a serialization of their own that a behaviour can store.
Objects ==
    {v \in UNION {Parts(w) : w \in PutValues \cup Items(MaxCalls)} :
        Kind(v.ty) # "lazy"}

\* Whether a value holds a LazyIO field.
HasLazy(v) == \E w \in Parts(v) : Kind(w.ty) = "lazy"

----------------------------------------------------------------------------
(* The properties.                                                         *)

\* C1. Closure: in every state, the states between the steps of a put and
\* the state a failed put leaves included, every child hash referenced by a
\* file at a final object path has a file at its own final path; so the
\* children are in place before the rename of the parent.
C1_Closure ==
    \A p \in ObjFiles :
        \A h \in ChildRefs(files[p]) : ObjPath(h) \in DOMAIN files

\* A put that failed part-way has left a parent with children in the store.
C1_Witness ==
    /\ ret.kind = "put"
    /\ ~ret.ok
    /\ ret.steps > 0
    /\ \E p \in ObjFiles : ChildRefs(files[p]) # {}

\* C2. Atomic visibility: in every state a final object path is absent or
\* holds the complete serialization of the value whose hash names it.
C2_CompleteAtFinalPath ==
    \A p \in ObjFiles :
        \E v \in Objects : as_hash(v) = p.h /\ files[p] = Flatten(write_to(v))

\* C3. Content addressing: the digest of the contents of every file at a
\* final object path is the hash its name is derived from.
C3_ContentAddressed ==
    \A p \in ObjFiles : hash_bytes(files[p]) = p.h

\* C4. Round trip: after a successful put(v) of a model struct, a Vec or a
\* BTreeMap, get::<T>(v.as_hash()) succeeds and returns a value equal to v.
C4_RoundTrip ==
    (ret.kind = "put" /\ ret.ok /\ ~HasLazy(ret.v))
        => get(FS, ret.v.ty, as_hash(ret.v)) = Ok(ret.v)

\* C5. Idempotent put: a put of a value whose object file exists performs no
\* step at all, and after a successful put(v) a second put(v) performs no
\* step, so it leaves the store that the first one left.
C5_IdempotentPut ==
    /\ (call.kind = "put" /\ call.step = 0
            /\ ObjPath(as_hash(call.v)) \in DOMAIN files)
        => todo = <<>>
    /\ (ret.kind = "put" /\ ret.ok)
        => /\ put(FS, ret.v) = <<>>
           /\ Run(FS, put(FS, ret.v)) = FS

\* A put of a value whose file was there has returned without a step.
C5_Witness ==
    /\ ret.kind = "put"
    /\ ret.ok
    /\ ret.steps = 0
    /\ ObjPath(as_hash(ret.v)) \in DOMAIN files

\* C6. Monotonic, immutable store: no step of put, push, reset_head or
\* IOLog::new, no I/O error and no crash removes a file at a final object
\* path or changes its contents.
C6_Immutable ==
    [][\A p \in ObjFiles : p \in DOMAIN files' /\ files'[p] = files[p]]_vars

\* A second push has returned on a store that held objects before it.
C6_Witness ==
    /\ ret.kind = "push"
    /\ ret.ok
    /\ ret.parent_hash # HashNone
    /\ ObjPath(ret.parent_hash) \in DOMAIN files

\* C7. Deduplication: a put performs no step on the paths of a child whose
\* object file exists when the put starts, and two stored parents with an
\* equal child both hold the hash of the one file of that child.
C7_Dedup ==
    /\ (call.kind = "put" /\ call.step = 0)
        => \A i \in 1..Len(call.v.kids) :
              ObjPath(as_hash(call.v.kids[i])) \in DOMAIN files
                => \A j \in 1..Len(todo) : todo[j].p.h # as_hash(call.v.kids[i])
    /\ ({ObjPath(as_hash(A1)), ObjPath(as_hash(A2))} \subseteq DOMAIN files)
        => /\ as_hash(sx) \in ChildRefs(files[ObjPath(as_hash(A1))])
           /\ as_hash(sx) \in ChildRefs(files[ObjPath(as_hash(A2))])
           /\ files[ObjPath(as_hash(sx))] = Flatten(write_to(sx))

\* put(A1); put(A2) has returned, and put(A2) performed the steps of the
\* parent alone.
C7_Witness ==
    /\ ret.kind = "put"
    /\ ret.ok
    /\ ret.v = A2
    /\ ret.steps = 3 + Len(write_to(A2))
    /\ ObjPath(as_hash(A1)) \in DOMAIN files

\* C8. Abort before visibility: when a put ends with an error (or the
\* process dies inside it), no file is at the final path of its value, and
\* every file of the store stays as it was.
C8_AbortBeforeVisibility ==
    [][(call.kind = "put" /\ call'.kind = "idle" /\ ~ret'.ok)
          => /\ ObjPath(as_hash(call.v)) \notin DOMAIN files'
             /\ files' = files]_vars

\* A put has failed after it had completed a child.
C8_Witness ==
    /\ ret.kind = "put"
    /\ ~ret.ok
    /\ \E i \in 1..Len(ret.v.kids) :
          ObjPath(as_hash(ret.v.kids[i])) \in DOMAIN files
    /\ ObjPath(as_hash(ret.v)) \notin DOMAIN files

\* C9. Stray temp files: a crash inside a put, here the first call on an
\* empty store, leaves at most one file with the "_" suffix in the store.
C9_AtMostOneTemp ==
    (ret.kind = "crash" /\ calls = 1 /\ call.kind = "idle")
        => Cardinality(TmpFiles) <= 1

\* C10. Push postcondition: after a successful push(v) on a log whose head
\* hash was p, head_hash() is the returned hash, get(returned hash) yields
\* v and parent_hash(returned hash) yields p.
C10_PushPostcondition ==
    (ret.kind = "push" /\ ret.ok /\ call.kind = "idle")
        => /\ head_hash(head) = ret.hash
           /\ log_get(FS, ret.hash) = Ok(ret.v)
           /\ parent_hash(FS, ret.hash) = [ok |-> TRUE, hash |-> ret.parent_hash]

\* A push on a log with a head has returned.
C10_Witness ==
    /\ ret.kind = "push"
    /\ ret.ok
    /\ call.kind = "idle"
    /\ ret.parent_hash # HashNone

\* The elements of a sequence, last first.
Rev(seq) == [i \in 1..Len(seq) |-> seq[Len(seq) + 1 - i]]

\* The hashes the pushes returned and the values they were given, in order.
PushedHashes == [i \in 1..Len(hist.pushed) |-> hist.pushed[i].hash]

PushedValues == [i \in 1..Len(hist.pushed) |-> hist.pushed[i].v]

\* No two elements of a sequence are equal.
Distinct(seq) == \A i, j \in 1..Len(seq) : i # j => seq[i] # seq[j]

\* C11. Iteration order: on a log built by pushes alone, the hash iterator
\* yields the hashes the pushes returned, last first, the item iterator the
\* pushed values, last first, and the last entry yielded is the genesis
\* entry, whose parent_hash is None.  For IOLog and for DefaultLog.
C11_IterationOrder ==
    (hist.pure /\ call.kind = "idle")
        => /\ hash_iter(IOLog(head, FS)) = Rev(PushedHashes)
           /\ iter(IOLog(head, FS)) = Rev(PushedValues)
           /\ hash_iter(PushAll(DefaultLog_new, PushedValues))
                 = Rev(DefaultHashes(PushedValues))
           /\ iter(PushAll(DefaultLog_new, PushedValues)) = Rev(PushedValues)
           /\ hist.pushed # <<>>
                => parent_hash(FS, hist.pushed[1].hash)
                       = [ok |-> TRUE, hash |-> HashNone]

\* Three pushes have built the log.
C11_Witness ==
    /\ hist.pure
    /\ call.kind = "idle"
    /\ Len(hist.pushed) = 3
    /\ Len(hash_iter(IOLog(head, FS))) = 3

\* C12. Head recovery: after successful pushes, an IOLog constructed anew
\* over the base has the hash of the last push as its head hash, and its
\* iterators yield what the iterators of the original log yield.
C12_HeadRecovery ==
    (hist.pure /\ call.kind = "idle" /\ hist.pushed # <<>>)
        => /\ head_hash(IOLog_new(FS)) = hist.pushed[Len(hist.pushed)].hash
           /\ hash_iter(IOLog(IOLog_new(FS), FS)) = hash_iter(IOLog(head, FS))
           /\ iter(IOLog(IOLog_new(FS), FS)) = iter(IOLog(head, FS))

\* IOLog::new has been called after two pushes.
C12_Witness ==
    /\ hist.pure
    /\ ret.kind = "new"
    /\ Len(hist.pushed) >= 2
    /\ ret.hash = hist.pushed[Len(hist.pushed)].hash

\* The hash the head file holds, as IOLog::new reads it; Hash::None when
\* there is no head file.
HeadFileHash ==
    IF HeadPath \in DOMAIN files THEN read_hash(files[HeadPath], 1) ELSE HashNone

\* C13. Head closure: in every state, the states between the steps of a
\* push and the state a crash inside a push leaves included, a head file
\* that holds a non-None hash names an entry that is in the store together
\* with its item, the item's children and every ancestor entry.
C13_HeadClosure ==
    HeadFileHash # HashNone
        => LET chain == LogIteratorHash(IOLog(NoVal, FS), HeadFileHash,
                                        Fuel(IOLog(NoVal, FS)))
           IN  \A i \in 1..Len(chain) :
                  /\ ObjPath(chain[i]) \in DOMAIN files
                  /\ log_get(FS, chain[i]).ok
                  /\ parent_hash(FS, chain[i]).ok

\* The head hash a push in progress started from and the hash of the entry
\* it pushes; outside a push, the hashes of the entries a log can hold.
HeadHashes ==
    IF call.kind = "push"
    THEN {call.parent_hash, as_hash(IOLogItem(call.parent_hash, call.v))} \ {HashNone}
    ELSE ResetHashes

\* C14. Atomic head rewrite: in every state the head file, when there is
\* one, holds the complete tagged hash of the previous or of the new head,
\* never an empty or partial content; and the log constructed after a crash
\* inside a push on a log that had a head has a head.
C14_AtomicHeadRewrite ==
    /\ HeadPath \in DOMAIN files
          => \E hash \in HeadHashes : files[HeadPath] = Flatten(write_hash(hash))
    /\ (ret.kind = "crash" /\ call.kind = "idle" /\ ret.parent_hash # HashNone)
          => head_hash(head) # HashNone

\* C15. A failed push is a no-op: when push returns the sentinel Hash::None,
\* the files are what they were when the push was called and head_hash() is
\* what it was.
C15_FailedPushNoOp ==
    [][(call.kind = "push" /\ call'.kind = "idle" /\ ret'.kind = "push" /\ ~ret'.ok)
          => /\ files' = hist.start
             /\ head_hash(head') = call.parent_hash]_vars

\* The head file is absent, is empty, does not begin with the Sha3 tag, or
\* the hash it holds names no entry that get can fetch.
HeadUnusable ==
    \/ HeadPath \notin DOMAIN files
    \/ files[HeadPath] = <<>>
    \/ files[HeadPath][1] # Byte(1)
    \/ ObjPath(HeadFileHash) \notin DOMAIN files
    \/ ~get(FS, "IOLogItem<A>", HeadFileHash).ok

\* C16. Open-on-start: IOLog::new, called by a client or after a crash,
\* writes nothing to the store, and over a base whose head file is absent,
\* unreadable, holds the None tag or names an entry that cannot be fetched
\* it yields a log whose head_hash() is None.
C16_OpenOnStart ==
    [][(\/ call.kind = "idle" /\ call'.kind = "idle" /\ ret'.kind = "new"
        \/ call.kind # "idle" /\ call'.kind = "idle" /\ ret'.kind = "crash")
          => /\ files' = files
             /\ dirs' = dirs
             /\ HeadUnusable => head_hash(head') = HashNone]_vars

\* IOLog::new has run over a head file that holds a Sha3 tag and names no
\* stored entry.
C16_Witness ==
    /\ ret.kind = "crash"
    /\ call.kind = "idle"
    /\ HeadPath \in DOMAIN files
    /\ HeadFileHash # HashNone
    /\ ObjPath(HeadFileHash) \notin DOMAIN files
    /\ head = NoVal

\* C17. reset_head(h): for an entry h of the store it sets head_hash() to h
\* and rewrites the head file, so that a log constructed right after it has
\* head_hash() = h; for an h with no stored entry it returns an error and
\* changes neither the head nor the files.
C17_ResetHead ==
    [][(call.kind = "idle" /\ call'.kind = "idle" /\ ret'.kind = "reset_head")
          => IF ret'.ok
             THEN /\ head_hash(head') = ret'.hash
                  /\ head_hash(IOLog_new([files |-> files', dirs |-> dirs'])) = ret'.hash
             ELSE /\ head' = head
                  /\ files' = files]_vars

\* The hashes a client looks up: the hashes of the entries a log can hold
\* and the hashes of the items and of their child.
LookupHashes ==
    ResetHashes \cup {as_hash(v) : v \in PushValues} \cup {as_hash(sx)}

\* C18. Absent lookup: for a hash that no successful push has returned,
\* parent_hash and get return an error (entry not found), not a value; both
\* are reads and leave the head and the store as they are.
C18_AbsentLookup ==
    call.kind = "idle"
        => \A hash \in LookupHashes \ {hist.pushed[i].hash : i \in 1..Len(hist.pushed)} :
              /\ ~log_get(FS, hash).ok
              /\ ~parent_hash(FS, hash).ok
              /\ get(FS, "IOLogItem<A>", hash).err # "panic"

\* C19. Distinct positions: the hashes a sequence of pushes returns are
\* pairwise distinct, also when equal values are pushed, and no entry's
\* parent_hash is the entry's own hash; for IOLog and for DefaultLog.
C19_DistinctPositions ==
    (hist.pure /\ call.kind = "idle")
        => /\ Distinct(PushedHashes)
           /\ \A i \in 1..Len(PushedHashes) :
                 parent_hash(FS, PushedHashes[i]).hash # PushedHashes[i]
           /\ LET log == PushAll(DefaultLog_new, PushedValues)
                  hashes == DefaultHashes(PushedValues)
              IN  /\ Distinct(hashes)
                  /\ DOMAIN log.entries = {hashes[i] : i \in 1..Len(hashes)}
                  /\ \A i \in 1..Len(hashes) :
                        DefaultLog_parent_hash(log, hashes[i]).hash # hashes[i]

\* Equal values have been pushed three times in a row.
C19_Witness ==
    /\ hist.pure
    /\ call.kind = "idle"
    /\ Len(PushedValues) >= 3
    /\ \A i \in 1..Len(PushedValues) : PushedValues[i] = PushedValues[1]

\* C20. Verification of an unmodified log: for a log built by pushes alone,
\* of any length, the empty log and logs with repeated values included,
\* verify_log returns None; for IOLog and for DefaultLog.
C20_VerifyUnmodified ==
    (hist.pure /\ call.kind = "idle")
        => /\ verify_log(IOLog(head, FS)) = NoFailure
           /\ verify_log(PushAll(DefaultLog_new, PushedValues)) = NoFailure

\* The positions of the DefaultLog whose entry now has another hash than
\* the value that was pushed there.
Tampered ==
    {i \in 1..Len(mem.pushed) :
        as_hash(mem.log.entries[mem.pushed[i].hash].entry) # as_hash(mem.pushed[i].v)}

\* The tampered position nearest to the genesis entry.
FirstTampered == CHOOSE i \in Tampered : \A j \in Tampered : i <= j

\* The hash verify_log computes from the contents of the entry at position i.
Recomputed(i) ==
    LET e == mem.log.entries[mem.pushed[i].hash]
    IN  IF e.parent_hash = HashNone THEN hash_as_hash(as_hash(e.entry))
        ELSE hash_with(as_hash(e.entry), e.parent_hash)

\* C21. Tamper detection: once the payload of one or more entries has been
\* changed through get_mut to a value with another hash, verify_log returns
\* a LogHashFailure for a tampered entry, and of several tampered entries
\* for the one nearest to the genesis entry.
C21_TamperDetection ==
    Tampered # {}
        => LET fail == verify_log(mem.log)
               first == mem.pushed[FirstTampered].hash
           IN  /\ fail.failure = "LogHashFailure"
               /\ fail.t = mem.log.entries[first].entry
               /\ first \in {fail.actual_hash, fail.expected_hash}

\* Two entries of a log of three are tampered, the genesis entry is not.
C21_Witness ==
    /\ Len(mem.pushed) = 3
    /\ Tampered = {2, 3}

\* C22 as stated. Failure fields: expected_hash is the hash under which the
\* tampered entry was pushed and is keyed, actual_hash the hash recomputed
\* from the mutated content.
C22_FailureFields ==
    Tampered # {}
        => /\ verify_log(mem.log).expected_hash = mem.pushed[FirstTampered].hash
           /\ verify_log(mem.log).actual_hash = Recomputed(FirstTampered)

\* C22 as amended. Failure fields: actual_hash is the hash under which the
\* tampered entry was pushed and is keyed, expected_hash the hash recomputed
\* from the mutated content and the parent hash.
C22_FailureFieldsAmended ==
    Tampered # {}
        => /\ verify_log(mem.log).actual_hash = mem.pushed[FirstTampered].hash
           /\ verify_log(mem.log).expected_hash = Recomputed(FirstTampered)

\* The second entry of a log of two is tampered.
C22_Witness ==
    /\ Len(mem.pushed) = 2
    /\ Tampered = {2}
    /\ verify_log(mem.log).failure = "LogHashFailure"

\* C23. Lazy deferral: after a successful put of a parent whose LazyIO field
\* holds a payload, get of the parent returns a value whose lazy field is
\* not loaded, and load makes it loaded with a payload equal to the one put.
C23_LazyDeferral ==
    (ret.kind = "put" /\ ret.ok /\ call.kind = "idle" /\ ret.v.ty = "LA"
        /\ is_loaded(ret.v.kids[1]))
        => LET outer == get(FS, "LA", as_hash(ret.v))
           IN  /\ outer.ok
               /\ ~is_loaded(outer.v.kids[1])
               /\ load(outer.v.kids[1], FS).ok
               /\ is_loaded(load(outer.v.kids[1], FS).v)
               /\ load(outer.v.kids[1], FS).v.kids = ret.v.kids[1].kids

C25_LoadOutcomes ==
    [][(lazy'.n # lazy.n /\ lazy'.op = "load")
          => LET before == lazy.obj.kids[1]
                 after == lazy'.obj.kids[1]
                 stored == get(FS, "LB", before.hash)
             IN  IF is_loaded(before)
                 THEN lazy'.res.ok /\ after = before
                 ELSE IF ~before.io
                 THEN /\ ~lazy'.res.ok
                      /\ lazy'.res.err = "NoHashIOError"
                      /\ after = before
                 ELSE IF stored.ok
                 THEN /\ lazy'.res.ok
                      /\ is_loaded(after)
                      /\ after.kids = <<stored.v>>
                 ELSE /\ ~lazy'.res.ok
                      /\ lazy'.res.err = stored.err
                      /\ after = before]_vars

\* load has returned the error of the store and the handle is not loaded.
C25_Witness ==
    /\ lazy.op = "load"
    /\ ~lazy.res.ok
    /\ lazy.res.err \in {"VersionError", "IOError"}
    /\ lazy.obj.kids[1].io
    /\ ~is_loaded(lazy.obj.kids[1])

\* C27. Legacy upgrade leaves the old file alone: the conversion of a value
\* of the old type has another hash than that value; once HashIO1::put of
\* the old value has returned, load_a gives its conversion; a file written
\* by HashIO1 keeps its contents in every step; and once put of the converted
\* value has returned, the old hash through load_a (which falls back to
\* HashIO1) and the new hash through HashIO::get both give the converted
\* value.
C27_LegacyUpgrade ==
    /\ [](\A a1 \in LegacyValues :
            /\ as_hash(From_A1(a1)) # as_hash(a1)
            /\ (ret.kind = "put" /\ ret.ok /\ ret.v = a1)
                  => load_a(FS, as_hash(a1)) = Ok(From_A1(a1))
            /\ (ret.kind = "put" /\ ret.ok /\ ret.v = From_A1(a1))
                  => /\ ObjPath(as_hash(a1)) \in DOMAIN files
                     /\ files[ObjPath(as_hash(a1))] = Flatten(write_to(a1))
                     /\ ~get(FS, "CA", as_hash(a1)).ok
                     /\ HashIO1_get(FS, "CA1", as_hash(a1)) = Ok(a1)
                     /\ load_a(FS, as_hash(a1)) = Ok(From_A1(a1))
                     /\ get(FS, "CA", as_hash(From_A1(a1))) = Ok(From_A1(a1)))
    /\ [][\A a1 \in LegacyValues :
            ObjPath(as_hash(a1)) \in DOMAIN files
              => /\ ObjPath(as_hash(a1)) \in DOMAIN files'
                 /\ files'[ObjPath(as_hash(a1))] = files[ObjPath(as_hash(a1))]]_vars

\* put of a converted value has returned and its file is in the store.
C27_Witness ==
    \E a1 \in LegacyValues :
        /\ ret.kind = "put"
        /\ ret.ok
        /\ ret.v = From_A1(a1)
        /\ ObjPath(as_hash(From_A1(a1))) \in DOMAIN files

\* C28. mark_done(title) of task.rs returns true exactly when an active
\* task has that title; it then removes that task alone from the active set
\* and gives a pooled task of that title cooling_until = ref_tm + cool_down
\* days, changing nothing else; when it returns false the TaskStat is as it
\* was; and a second mark_done of the title returns false.
C28_MarkDone ==
    [][(stat'.n # stat.n /\ stat'.op = "mark_done" /\ stat.rev = "task")
          => LET title == stat'.arg
                 old == stat.ts
                 new == stat'.ts
             IN  /\ stat'.ret = (title \in DOMAIN old.active)
                 /\ stat'.ret
                      => /\ DOMAIN new.active = DOMAIN old.active \ {title}
                         /\ \A t \in DOMAIN new.active : new.active[t] = old.active[t]
                         /\ DOMAIN new.pool = DOMAIN old.pool
                         /\ \A t \in DOMAIN old.pool :
                               new.pool[t] =
                                  IF t = title
                                  THEN [old.pool[t] EXCEPT !.cooling_until =
                                          old.ref_tm + old.pool[t].cool_down * TicksPerDay]
                                  ELSE old.pool[t]
                         /\ new.ref_tm = old.ref_tm
                 /\ ~stat'.ret => new = old
                 /\ ~mark_done(new, title).ret]_vars

\* mark_done has returned true for a title that is also pooled, and the
\* pooled task is cooling down now.
C28_Witness ==
    /\ stat.rev = "task"
    /\ stat.op = "mark_done"
    /\ stat.ret = TRUE
    /\ stat.arg \in DOMAIN stat.ts.pool
    /\ stat.ts.pool[stat.arg].cooling_until > stat.ts.ref_tm

\* The guard of activate for the tasks picked: a picked task is among the
\* active tasks afterwards exactly when it was active before or was not
\* cooling down (cooling_until <= ref_tm); active tasks stay as they were,
\* no task that was not picked is activated, and the pool is unchanged.
ActivationGuard(picked, old, new) ==
    /\ \A t \in picked :
          (t \in DOMAIN new.active)
             = (t \in DOMAIN old.active \/ old.pool[t].cooling_until <= old.ref_tm)
    /\ \A t \in DOMAIN old.active :
          t \in DOMAIN new.active /\ new.active[t] = old.active[t]
    /\ DOMAIN new.active \subseteq DOMAIN old.active \cup picked
    /\ new.pool = old.pool

\* C29. Activation guard: in both revisions of TaskStat, activate moves a
\* picked pooled task into the active set exactly when no active task has
\* its title and cooling_until <= ref_tm, and leaves the pool unchanged.
C29_ActivationGuard ==
    [][(stat'.n # stat.n /\ stat'.op = "activate")
          => ActivationGuard(stat'.arg, stat.ts, stat'.ts)]_vars

\* C30. Header validation: for every object file and every tbd_model! type
\* T, get::<T> of a file whose first u32 is below 1 is
\* Err(VersionError(that u32)), and get::<T> of a file whose first u32 is at
\* least 1 and whose stored type hash is not T::type_hash() is
\* Err(TypeError(the stored hash)); no value comes with either.
C30_HeaderValidation ==
    \A p \in ObjFiles : \A ty \in {"A", "B", "LA", "LB", "CA"} :
        LET cells == files[p]
            version == read_u32(cells, 1)
            stored == read_hash(cells, 5)
            res == get(FS, ty, p.h)
        IN  /\ version < 1
                => /\ ~res.ok /\ res.err = "VersionError" /\ res.v = NoVal
                   /\ res.arg.version = version
            /\ (version >= 1 /\ stored # type_hash(ty))
                => /\ ~res.ok /\ res.err = "TypeError" /\ res.v = NoVal
                   /\ res.arg.type_hash = stored

\* The store holds a file of version 0 and a file of a tbd_model! type, which
\* read as another such type gives a TypeError with the type hash stored.
C30_Witness ==
    /\ \E p \in ObjFiles : files[p] # <<>> /\ get(FS, "A", p.h).err = "VersionError"
    /\ \E p \in ObjFiles :
          /\ get(FS, "B", p.h).err = "TypeError"
          /\ get(FS, "B", p.h).arg.type_hash = type_hash("A")

\* C31. Flex hook trigger: whenever receive_hashable of a tbd_model! type
\* calls the flex function, on the files as they are or with one file that
\* cannot be opened, the primary reader has failed with VersionError or
\* TypeError.
C31_FlexHookTrigger ==
    \A p \in ObjFiles : \A bad \in {{}} \cup {{q} : q \in ObjFiles \ {p}} :
        \A ty \in {"A", "B", "LA", "LB", "CA"} :
            flex_fn_called(OpenFails(FS, bad), ty, files[p])
               => internal_receive(OpenFails(FS, bad), ty, files[p]).err
                     \in {"VersionError", "TypeError"}

\* C32. Strict readers: at every position of every object file, a reader of
\* a field of 1, 2 or 4 bytes (read_u8, read_i16, read_u32, read_i32,
\* read_f32, read_bytes for each byte, the tag and the digest of read_hash)
\* returns an error when fewer bytes are left than the field is wide, and
\* read_hash gives Hash::None for the tag 0 only.
C32_StrictReaders ==
    \A p \in ObjFiles : \A pos \in 1..(Len(files[p]) + 1) :
        /\ \A n \in {1, 2, 4} :
              Read_read(files[p], pos, n).count < n => ~Read_read(files[p], pos, n).ok
        /\ read_hash(files[p], pos) = HashNone => read_u8(files[p], pos) = 0

\* C33. Hex round trip: as_string of from_string(s) is s for every string s
\* of hex characters of the length of a digest, and from_string of
\* h.as_string() is h for every hash h, Hash::None included.
C33_HexRoundTrip ==
    /\ hex.op = "from_string" => as_string(hex.hash) = hex.str
    /\ hex.op = "as_string" => from_string(hex.str) = hex.hash

\* C34. Iteration always ends: for every log that push and reset_head can
\* build, also when one of its object files cannot be opened, both iterators
\* started at the head end before they have made more calls of next() than
\* the store has files, the hash iterator yields no hash twice, no lookup of
\* the walk panics, and the item iterator yields no more items than the hash
\* iterator yields hashes; likewise for the DefaultLog of the same pushes.
C34_IterationEnds ==
    call.kind = "idle"
        => /\ \A bad \in {{}} \cup {{q} : q \in ObjFiles} :
                 LET log == IOLog(head, OpenFails(FS, bad))
                     hashes == hash_iter(log)
                 IN  /\ Len(hashes) < Fuel(log)
                     /\ Distinct(hashes)
                     /\ Len(iter(log)) <= Len(hashes)
                     /\ \A i \in 1..Len(hashes) :
                           get(log.fs, "IOLogItem<A>", hashes[i]).err # "panic"
           /\ LET log == PushAll(DefaultLog_new, PushedValues)
                  hashes == hash_iter(log)
              IN  /\ Len(hashes) < Fuel(log)
                  /\ Distinct(hashes)
                  /\ Len(iter(log)) = Len(hashes)

\* reset_head has moved the head of a log of three entries to its second
\* entry, whose chain the iterators walk to the genesis entry; and a lookup
\* fails in the middle of a chain.
C34_Witness ==
    /\ call.kind = "idle"
    /\ ret.kind = "reset_head"
    /\ ret.ok
    /\ Len(hist.pushed) = 3
    /\ Len(hash_iter(IOLog(head, FS))) = 2
    /\ \E q \in ObjFiles : Len(hash_iter(IOLog(head, OpenFails(FS, {q})))) = 1

\* The chain of entries walked from the hash the head file of a store holds,
\* as IOLog::new reads it and the hash iterator follows it: the hashes of
\* the walk that name an entry of the store.
HeadChain(fl) ==
    LET log == IOLog(NoVal, [files |-> fl, dirs |-> {}])
        hash == IF HeadPath \in DOMAIN fl THEN read_hash(fl[HeadPath], 1) ELSE HashNone
        Stored(h) == ObjPath(h) \in DOMAIN fl
    IN  SelectSeq(LogIteratorHash(log, hash, Fuel(log)), Stored)

\* C35. History is never lost: when a call ends, be it a push that returns
\* a hash, a push that fails or IOLog::new, the chain walked from the head
\* file ends with the chain that was walked from it when the call began, and
\* it differs from that chain only after a push that returned a hash, by that
\* entry at its front.
C35_HistoryKept ==
    [][(call'.kind = "idle" /\ ret' # ret)
          => LET old == HeadChain(IF call.kind = "push" THEN hist.start ELSE files)
                 new == HeadChain(files')
             IN  \/ new = old
                 \/ /\ ret'.kind = "push"
                    /\ ret'.ok
                    /\ new = <<ret'.hash>> \o old]_vars

\* The object files of a store after put(a) and then put(b), both running
\* to their end.
PutBoth(fs, a, b) ==
    LET fs1 == Run(fs, put(fs, a))
        fs2 == Run(fs1, put(fs1, b))
    IN  [p \in {q \in DOMAIN fs2.files : q.kind = "obj"} |-> fs2.files[p]]

\* C36. Order independence of put: from every store state between calls,
\* put(a); put(b) and put(b); put(a) leave the same object files with the
\* same contents, for any two values a and b.
C36_PutOrder ==
    call.kind = "idle"
        => \A a, b \in PutValues : PutBoth(FS, a, b) = PutBoth(FS, b, a)

\* C37. unload() does not change identity: for every handle that new,
\* unloaded, get, load, get_mut with an assignment, put and unload can
\* produce, as_hash() after unload() is what it was right before, and a load
\* that succeeds on the unloaded handle yields a payload with that hash.
C37_UnloadIdentity ==
    lazy.op = "unload"
        => /\ as_hash(lazy.obj.kids[1]) = as_hash(lazy.was)
           /\ load(lazy.obj.kids[1], FS).ok
                 => as_hash(load(lazy.obj.kids[1], FS).v.kids[1]) = as_hash(lazy.was)

\* C38. IOLog refines DefaultLog: after pushes without I/O failure, the
\* IOLog and the DefaultLog given the same items have as many entries on the
\* walk from the head, their item iterators yield the same sequence, each
\* has head_hash() None exactly when nothing was pushed, and in each the
\* parent_hash of the k-th entry pushed is the hash the push before it
\* returned, None for the first.
C38_IOLogRefinesDefaultLog ==
    (hist.pure /\ call.kind = "idle")
        => LET io == IOLog(head, FS)
               def == PushAll(DefaultLog_new, PushedValues)
               hashes == DefaultHashes(PushedValues)
               n == Len(hist.pushed)
           IN  /\ Len(hash_iter(io)) = Len(hash_iter(def))
               /\ iter(io) = iter(def)
               /\ (io.head_hash = HashNone) <=> (n = 0)
               /\ (def.head_hash = HashNone) <=> (n = 0)
               /\ \A k \in 1..n :
                     /\ Log_parent_hash(io, PushedHashes[k])
                           = [ok |-> TRUE,
                              hash |-> IF k = 1 THEN HashNone ELSE PushedHashes[k - 1]]
                     /\ Log_parent_hash(def, hashes[k])
                           = [ok |-> TRUE,
                              hash |-> IF k = 1 THEN HashNone ELSE hashes[k - 1]]

\* Both logs hold three entries, the first two pushed with different items.
C38_Witness ==
    /\ hist.pure
    /\ call.kind = "idle"
    /\ Len(hist.pushed) = 3
    /\ PushedValues[1] # PushedValues[2]
    /\ Len(iter(IOLog(head, FS))) = 3
    /\ Len(iter(PushAll(DefaultLog_new, PushedValues))) = 3

\* Whether a value has a LazyIO field that is not loaded.
HasUnloaded(v) == \E w \in Parts(v) : Kind(w.ty) = "lazy" /\ ~is_loaded(w)

\* C26. Unloaded lazy fields write nothing: no step of a put of a parent
\* whose LazyIO field is unloaded creates an object file other than the
\* parent's own.
C26_UnloadedWritesNothing ==
    [][(call.kind = "put" /\ HasUnloaded(call.v))
          => {p \in DOMAIN files' : p.kind = "obj"} \ ObjFiles
                \subseteq {ObjPath(as_hash(call.v))}]_vars

====
